---------------------------- MODULE Spec2Model ----------------------------
(***************************************************************************)
(* The chat pipeline of the college portal backend: the chat controller    *)
(* (processChatMessage, getChatHistory, clearChatHistory), the route       *)
(* validators and authentication middleware in front of it, and the        *)
(* retrieval / language utilities it calls.                                *)
(*                                                                         *)
(* Strings are sequences of UTF-16 code units (what String.length,         *)
(* includes, split and the regular expressions of the source work on).     *)
(* An absent value (undefined) is the one-element sequence <<-1>>.         *)
(* Confidences are in hundredths (0.9 is 90); detection scores in tenths.  *)
(***************************************************************************)
EXTENDS Integers, Sequences, FiniteSets, TLC

\* ---- document contents (PROJECT_COMPLETE_STATUS.md lines 217-281) ----
\* line 221: "College admission process requires completion of application form, submission of academic transcripts, and entrance exam scores. The admission committee reviews applications based on merit and availability of seats."
content_admission_en ==
    <<67, 111, 108, 108, 101, 103, 101, 32, 97, 100, 109, 105, 115, 115, 105, 111, 110, 32, 112,
      114, 111, 99, 101, 115, 115, 32, 114, 101, 113, 117, 105, 114, 101, 115, 32, 99, 111, 109,
      112, 108, 101, 116, 105, 111, 110, 32, 111, 102, 32, 97, 112, 112, 108, 105, 99, 97, 116,
      105, 111, 110, 32, 102, 111, 114, 109, 44, 32, 115, 117, 98, 109, 105, 115, 115, 105, 111,
      110, 32, 111, 102, 32, 97, 99, 97, 100, 101, 109, 105, 99, 32, 116, 114, 97, 110, 115, 99,
      114, 105, 112, 116, 115, 44, 32, 97, 110, 100, 32, 101, 110, 116, 114, 97, 110, 99, 101, 32,
      101, 120, 97, 109, 32, 115, 99, 111, 114, 101, 115, 46, 32, 84, 104, 101, 32, 97, 100, 109,
      105, 115, 115, 105, 111, 110, 32, 99, 111, 109, 109, 105, 116, 116, 101, 101, 32, 114, 101,
      118, 105, 101, 119, 115, 32, 97, 112, 112, 108, 105, 99, 97, 116, 105, 111, 110, 115, 32, 98,
      97, 115, 101, 100, 32, 111, 110, 32, 109, 101, 114, 105, 116, 32, 97, 110, 100, 32, 97, 118,
      97, 105, 108, 97, 98, 105, 108, 105, 116, 121, 32, 111, 102, 32, 115, 101, 97, 116, 115, 46>>
\* line 231: "Annual tuition fees are $5000 for undergraduate programs and $7000 for graduate programs. Payment can be made in installments. Scholarships are available for meritorious students."
content_fees_en ==
    <<65, 110, 110, 117, 97, 108, 32, 116, 117, 105, 116, 105, 111, 110, 32, 102, 101, 101, 115,
      32, 97, 114, 101, 32, 36, 53, 48, 48, 48, 32, 102, 111, 114, 32, 117, 110, 100, 101, 114,
      103, 114, 97, 100, 117, 97, 116, 101, 32, 112, 114, 111, 103, 114, 97, 109, 115, 32, 97, 110,
      100, 32, 36, 55, 48, 48, 48, 32, 102, 111, 114, 32, 103, 114, 97, 100, 117, 97, 116, 101, 32,
      112, 114, 111, 103, 114, 97, 109, 115, 46, 32, 80, 97, 121, 109, 101, 110, 116, 32, 99, 97,
      110, 32, 98, 101, 32, 109, 97, 100, 101, 32, 105, 110, 32, 105, 110, 115, 116, 97, 108, 108,
      109, 101, 110, 116, 115, 46, 32, 83, 99, 104, 111, 108, 97, 114, 115, 104, 105, 112, 115, 32,
      97, 114, 101, 32, 97, 118, 97, 105, 108, 97, 98, 108, 101, 32, 102, 111, 114, 32, 109, 101,
      114, 105, 116, 111, 114, 105, 111, 117, 115, 32, 115, 116, 117, 100, 101, 110, 116, 115, 46>>
\* line 241: "The college library is open from 8 AM to 10 PM on weekdays and 9 AM to 6 PM on weekends. Students can borrow up to 5 books at a time. Digital resources are available 24/7."
content_library_en ==
    <<84, 104, 101, 32, 99, 111, 108, 108, 101, 103, 101, 32, 108, 105, 98, 114, 97, 114, 121, 32,
      105, 115, 32, 111, 112, 101, 110, 32, 102, 114, 111, 109, 32, 56, 32, 65, 77, 32, 116, 111,
      32, 49, 48, 32, 80, 77, 32, 111, 110, 32, 119, 101, 101, 107, 100, 97, 121, 115, 32, 97, 110,
      100, 32, 57, 32, 65, 77, 32, 116, 111, 32, 54, 32, 80, 77, 32, 111, 110, 32, 119, 101, 101,
      107, 101, 110, 100, 115, 46, 32, 83, 116, 117, 100, 101, 110, 116, 115, 32, 99, 97, 110, 32,
      98, 111, 114, 114, 111, 119, 32, 117, 112, 32, 116, 111, 32, 53, 32, 98, 111, 111, 107, 115,
      32, 97, 116, 32, 97, 32, 116, 105, 109, 101, 46, 32, 68, 105, 103, 105, 116, 97, 108, 32,
      114, 101, 115, 111, 117, 114, 99, 101, 115, 32, 97, 114, 101, 32, 97, 118, 97, 105, 108, 97,
      98, 108, 101, 32, 50, 52, 47, 55, 46>>
\* line 252: "\u0915\u0949\u0932\u0947\u091C \u092E\u0947\u0902 \u092A\u094D\u0930\u0935\u0947\u0936 \u0915\u0947 \u0932\u093F\u090F \u0906\u0935\u0947\u0926\u0928 \u092A\u0924\u094D\u0930 \u092D\u0930\u0928\u093E, \u0936\u0948\u0915\u094D\u0937\u0923\u093F\u0915 \u092A\u094D\u0930\u092E\u093E\u0923 \u092A\u0924\u094D\u0930 \u091C\u092E\u093E \u0915\u0930\u0928\u093E \u0914\u0930 \u092A\u094D\u0930\u0935\u0947\u0936 \u092A\u0930\u0940\u0915\u094D\u0937\u093E \u0915\u0947 \u0905\u0902\u0915 \u0906\u0935\u0936\u094D\u092F\u0915 \u0939\u0948\u0902\u0964 \u092A\u094D\u0930\u0935\u0947\u0936 \u0938\u092E\u093F\u0924\u093F \u092F\u094B\u0917\u094D\u092F\u0924\u093E \u0914\u0930 \u0938\u0940\u091F\u094B\u0902 \u0915\u0940 \u0909\u092A\u0932\u092C\u094D\u0927\u0924\u093E \u0915\u0947 \u0906\u0927\u093E\u0930 \u092A\u0930 \u0906\u0935\u0947\u0926\u0928\u094B\u0902 \u0915\u0940 \u0938\u092E\u0940\u0915\u094D\u0937\u093E \u0915\u0930\u0924\u0940 \u0939\u0948\u0964"
content_admission_hi ==
    <<2325, 2377, 2354, 2375, 2332, 32, 2350, 2375, 2306, 32, 2346, 2381, 2352, 2357, 2375, 2358,
      32, 2325, 2375, 32, 2354, 2367, 2319, 32, 2310, 2357, 2375, 2342, 2344, 32, 2346, 2340, 2381,
      2352, 32, 2349, 2352, 2344, 2366, 44, 32, 2358, 2376, 2325, 2381, 2359, 2339, 2367, 2325, 32,
      2346, 2381, 2352, 2350, 2366, 2339, 32, 2346, 2340, 2381, 2352, 32, 2332, 2350, 2366, 32,
      2325, 2352, 2344, 2366, 32, 2324, 2352, 32, 2346, 2381, 2352, 2357, 2375, 2358, 32, 2346,
      2352, 2368, 2325, 2381, 2359, 2366, 32, 2325, 2375, 32, 2309, 2306, 2325, 32, 2310, 2357,
      2358, 2381, 2351, 2325, 32, 2361, 2376, 2306, 2404, 32, 2346, 2381, 2352, 2357, 2375, 2358,
      32, 2360, 2350, 2367, 2340, 2367, 32, 2351, 2379, 2327, 2381, 2351, 2340, 2366, 32, 2324,
      2352, 32, 2360, 2368, 2335, 2379, 2306, 32, 2325, 2368, 32, 2313, 2346, 2354, 2348, 2381,
      2343, 2340, 2366, 32, 2325, 2375, 32, 2310, 2343, 2366, 2352, 32, 2346, 2352, 32, 2310, 2357,
      2375, 2342, 2344, 2379, 2306, 32, 2325, 2368, 32, 2360, 2350, 2368, 2325, 2381, 2359, 2366,
      32, 2325, 2352, 2340, 2368, 32, 2361, 2376, 2404>>
\* line 262: "\u0938\u094D\u0928\u093E\u0924\u0915 \u0915\u093E\u0930\u094D\u092F\u0915\u094D\u0930\u092E\u094B\u0902 \u0915\u0947 \u0932\u093F\u090F \u0935\u093E\u0930\u094D\u0937\u093F\u0915 \u0936\u093F\u0915\u094D\u0937\u093E \u0936\u0941\u0932\u094D\u0915 \u20B950,000 \u0914\u0930 \u0938\u094D\u0928\u093E\u0924\u0915\u094B\u0924\u094D\u0924\u0930 \u0915\u093E\u0930\u094D\u092F\u0915\u094D\u0930\u092E\u094B\u0902 \u0915\u0947 \u0932\u093F\u090F \u20B970,000 \u0939\u0948\u0964 \u092D\u0941\u0917\u0924\u093E\u0928 \u0915\u093F\u0936\u094D\u0924\u094B\u0902 \u092E\u0947\u0902 \u0915\u093F\u092F\u093E \u091C\u093E \u0938\u0915\u0924\u093E \u0939\u0948\u0964 \u092E\u0947\u0927\u093E\u0935\u0940 \u091B\u093E\u0924\u094D\u0930\u094B\u0902 \u0915\u0947 \u0932\u093F\u090F \u091B\u093E\u0924\u094D\u0930\u0935\u0943\u0924\u094D\u0924\u093F \u0909\u092A\u0932\u092C\u094D\u0927 \u0939\u0948\u0964"
content_fees_hi ==
    <<2360, 2381, 2344, 2366, 2340, 2325, 32, 2325, 2366, 2352, 2381, 2351, 2325, 2381, 2352, 2350,
      2379, 2306, 32, 2325, 2375, 32, 2354, 2367, 2319, 32, 2357, 2366, 2352, 2381, 2359, 2367,
      2325, 32, 2358, 2367, 2325, 2381, 2359, 2366, 32, 2358, 2369, 2354, 2381, 2325, 32, 8377, 53,
      48, 44, 48, 48, 48, 32, 2324, 2352, 32, 2360, 2381, 2344, 2366, 2340, 2325, 2379, 2340, 2381,
      2340, 2352, 32, 2325, 2366, 2352, 2381, 2351, 2325, 2381, 2352, 2350, 2379, 2306, 32, 2325,
      2375, 32, 2354, 2367, 2319, 32, 8377, 55, 48, 44, 48, 48, 48, 32, 2361, 2376, 2404, 32, 2349,
      2369, 2327, 2340, 2366, 2344, 32, 2325, 2367, 2358, 2381, 2340, 2379, 2306, 32, 2350, 2375,
      2306, 32, 2325, 2367, 2351, 2366, 32, 2332, 2366, 32, 2360, 2325, 2340, 2366, 32, 2361, 2376,
      2404, 32, 2350, 2375, 2343, 2366, 2357, 2368, 32, 2331, 2366, 2340, 2381, 2352, 2379, 2306,
      32, 2325, 2375, 32, 2354, 2367, 2319, 32, 2331, 2366, 2340, 2381, 2352, 2357, 2371, 2340,
      2381, 2340, 2367, 32, 2313, 2346, 2354, 2348, 2381, 2343, 32, 2361, 2376, 2404>>
\* line 273: "\u0915\u0949\u0932\u0947\u091C \u0930\u0940 \u0932\u093E\u0907\u092C\u094D\u0930\u0947\u0930\u0940 \u0938\u094B\u092E\u0935\u093E\u0930 \u0938\u0942\u0902 \u0936\u0941\u0915\u094D\u0930\u0935\u093E\u0930 \u0938\u0935\u0947\u0930\u0947 8 \u092C\u091C\u0947 \u0938\u0942\u0902 \u0930\u093E\u0924 10 \u092C\u091C\u0947 \u0924\u0915 \u0905\u0930 \u0936\u0928\u093F\u0935\u093E\u0930-\u0930\u0935\u093F\u0935\u093E\u0930 \u0938\u0935\u0947\u0930\u0947 9 \u092C\u091C\u0947 \u0938\u0942\u0902 \u0936\u093E\u092E 6 \u092C\u091C\u0947 \u0924\u0915 \u0916\u0941\u0932\u0940 \u0930\u0948\u0935\u0948 \u0939\u0948\u0964 \u091B\u093E\u0924\u094D\u0930 \u090F\u0915 \u092C\u093E\u0930\u0940 \u092E\u0948\u0902 5 \u0915\u093F\u0924\u093E\u092C\u093E\u0902 \u0932\u0947 \u0938\u0915\u0948 \u0939\u0948\u0902\u0964"
content_library_raj ==
    <<2325, 2377, 2354, 2375, 2332, 32, 2352, 2368, 32, 2354, 2366, 2311, 2348, 2381, 2352, 2375,
      2352, 2368, 32, 2360, 2379, 2350, 2357, 2366, 2352, 32, 2360, 2370, 2306, 32, 2358, 2369,
      2325, 2381, 2352, 2357, 2366, 2352, 32, 2360, 2357, 2375, 2352, 2375, 32, 56, 32, 2348, 2332,
      2375, 32, 2360, 2370, 2306, 32, 2352, 2366, 2340, 32, 49, 48, 32, 2348, 2332, 2375, 32, 2340,
      2325, 32, 2309, 2352, 32, 2358, 2344, 2367, 2357, 2366, 2352, 45, 2352, 2357, 2367, 2357,
      2366, 2352, 32, 2360, 2357, 2375, 2352, 2375, 32, 57, 32, 2348, 2332, 2375, 32, 2360, 2370,
      2306, 32, 2358, 2366, 2350, 32, 54, 32, 2348, 2332, 2375, 32, 2340, 2325, 32, 2326, 2369,
      2354, 2368, 32, 2352, 2376, 2357, 2376, 32, 2361, 2376, 2404, 32, 2331, 2366, 2340, 2381,
      2352, 32, 2319, 2325, 32, 2348, 2366, 2352, 2368, 32, 2350, 2376, 2306, 32, 53, 32, 2325,
      2367, 2340, 2366, 2348, 2366, 2306, 32, 2354, 2375, 32, 2360, 2325, 2376, 32, 2361, 2376,
      2306, 2404>>
collegeDocuments0 ==
    << \* id: admission-en
       [id |-> <<97, 100, 109, 105, 115, 115, 105, 111, 110, 45, 101, 110>>, content |-> content_admission_en,
        metadata |-> [source |-> "admission-guidelines", language |-> "en", category |-> "admission"]],
       \* id: fees-en
       [id |-> <<102, 101, 101, 115, 45, 101, 110>>, content |-> content_fees_en,
        metadata |-> [source |-> "fee-structure", language |-> "en", category |-> "fees"]],
       \* id: library-en
       [id |-> <<108, 105, 98, 114, 97, 114, 121, 45, 101, 110>>, content |-> content_library_en,
        metadata |-> [source |-> "library-rules", language |-> "en", category |-> "facilities"]],
       \* id: admission-hi
       [id |-> <<97, 100, 109, 105, 115, 115, 105, 111, 110, 45, 104, 105>>, content |-> content_admission_hi,
        metadata |-> [source |-> "admission-guidelines-hindi", language |-> "hi", category |-> "admission"]],
       \* id: fees-hi
       [id |-> <<102, 101, 101, 115, 45, 104, 105>>, content |-> content_fees_hi,
        metadata |-> [source |-> "fee-structure-hindi", language |-> "hi", category |-> "fees"]],
       \* id: library-raj
       [id |-> <<108, 105, 98, 114, 97, 114, 121, 45, 114, 97, 106>>, content |-> content_library_raj,
        metadata |-> [source |-> "library-rules-rajasthani", language |-> "raj", category |-> "facilities"]] >>
\* ---- languagePatterns keywords (PROJECT_COMPLETE_STATUS.md lines 481-503) ----
\* \u092E\u0948\u0902, \u0906\u092A, \u0915\u094D\u092F\u093E, \u0915\u0948\u0938\u0947, \u0915\u0939\u093E\u0901, \u0915\u092C, \u0915\u094D\u092F\u094B\u0902, \u0939\u0948, \u0939\u0948\u0902, \u0925\u093E, \u0925\u0947, \u0939\u094B\u0917\u093E, \u0939\u094B\u0902\u0917\u0947, \u0928\u092E\u0938\u094D\u0924\u0947, \u0927\u0928\u094D\u092F\u0935\u093E\u0926, \u0915\u0943\u092A\u092F\u093E, \u0939\u093E\u0901, \u0928\u0939\u0940\u0902, \u0905\u091A\u094D\u091B\u093E, \u092C\u0941\u0930\u093E, \u091B\u093E\u0924\u094D\u0930, \u0936\u093F\u0915\u094D\u0937\u0915, \u0915\u0949\u0932\u0947\u091C
keywords_hi ==
    << <<2350, 2376, 2306>>,
       <<2310, 2346>>,
       <<2325, 2381, 2351, 2366>>,
       <<2325, 2376, 2360, 2375>>,
       <<2325, 2361, 2366, 2305>>,
       <<2325, 2348>>,
       <<2325, 2381, 2351, 2379, 2306>>,
       <<2361, 2376>>,
       <<2361, 2376, 2306>>,
       <<2341, 2366>>,
       <<2341, 2375>>,
       <<2361, 2379, 2327, 2366>>,
       <<2361, 2379, 2306, 2327, 2375>>,
       <<2344, 2350, 2360, 2381, 2340, 2375>>,
       <<2343, 2344, 2381, 2351, 2357, 2366, 2342>>,
       <<2325, 2371, 2346, 2351, 2366>>,
       <<2361, 2366, 2305>>,
       <<2344, 2361, 2368, 2306>>,
       <<2309, 2330, 2381, 2331, 2366>>,
       <<2348, 2369, 2352, 2366>>,
       <<2331, 2366, 2340, 2381, 2352>>,
       <<2358, 2367, 2325, 2381, 2359, 2325>>,
       <<2325, 2377, 2354, 2375, 2332>> >>
\* \u0939\u0942\u0901, \u0925\u093E\u0930\u094B, \u0925\u093E\u0930\u0940, \u0915\u094D\u092F\u0942\u0902, \u0915\u093F\u0924\u094D\u0924\u0947, \u0930\u093E\u092E, \u0930\u093E\u092E, \u0927\u0928\u094D\u092F\u094B, \u092E\u094D\u0939\u093E\u0930\u094B, \u092E\u094D\u0939\u093E\u0930\u0940, \u0930\u093E\u091C\u0938\u094D\u0925\u093E\u0928, \u092E\u093E\u0930\u0935\u093E\u0921\u093C, \u091C\u0948\u0938\u0932\u092E\u0947\u0930, \u091C\u094B\u0927\u092A\u0941\u0930, \u0909\u0926\u092F\u092A\u0941\u0930, \u092D\u093E\u0937\u093E, \u092C\u094B\u0932\u0940
keywords_raj ==
    << <<2361, 2370, 2305>>,
       <<2341, 2366, 2352, 2379>>,
       <<2341, 2366, 2352, 2368>>,
       <<2325, 2381, 2351, 2370, 2306>>,
       <<2325, 2367, 2340, 2381, 2340, 2375>>,
       <<2352, 2366, 2350>>,
       <<2352, 2366, 2350>>,
       <<2343, 2344, 2381, 2351, 2379>>,
       <<2350, 2381, 2361, 2366, 2352, 2379>>,
       <<2350, 2381, 2361, 2366, 2352, 2368>>,
       <<2352, 2366, 2332, 2360, 2381, 2341, 2366, 2344>>,
       <<2350, 2366, 2352, 2357, 2366, 2337, 2364>>,
       <<2332, 2376, 2360, 2354, 2350, 2375, 2352>>,
       <<2332, 2379, 2343, 2346, 2369, 2352>>,
       <<2313, 2342, 2351, 2346, 2369, 2352>>,
       <<2349, 2366, 2359, 2366>>,
       <<2348, 2379, 2354, 2368>> >>
\* hello, hi, thank, please, yes, no, good, bad, student, teacher, college, what, where, when, why, how, who, which, can, will, would, should
keywords_en ==
    << <<104, 101, 108, 108, 111>>,
       <<104, 105>>,
       <<116, 104, 97, 110, 107>>,
       <<112, 108, 101, 97, 115, 101>>,
       <<121, 101, 115>>,
       <<110, 111>>,
       <<103, 111, 111, 100>>,
       <<98, 97, 100>>,
       <<115, 116, 117, 100, 101, 110, 116>>,
       <<116, 101, 97, 99, 104, 101, 114>>,
       <<99, 111, 108, 108, 101, 103, 101>>,
       <<119, 104, 97, 116>>,
       <<119, 104, 101, 114, 101>>,
       <<119, 104, 101, 110>>,
       <<119, 104, 121>>,
       <<104, 111, 119>>,
       <<119, 104, 111>>,
       <<119, 104, 105, 99, 104>>,
       <<99, 97, 110>>,
       <<119, 105, 108, 108>>,
       <<119, 111, 117, 108, 100>>,
       <<115, 104, 111, 117, 108, 100>> >>
\* ---- canned strings of languageUtils ----
\* line 604: "Hello! I'm your college assistant. How can I help you today?"
greeting_en ==
    <<72, 101, 108, 108, 111, 33, 32, 73, 39, 109, 32, 121, 111, 117, 114, 32, 99, 111, 108, 108,
      101, 103, 101, 32, 97, 115, 115, 105, 115, 116, 97, 110, 116, 46, 32, 72, 111, 119, 32, 99,
      97, 110, 32, 73, 32, 104, 101, 108, 112, 32, 121, 111, 117, 32, 116, 111, 100, 97, 121, 63>>
\* line 605: "\u0928\u092E\u0938\u094D\u0924\u0947! \u092E\u0948\u0902 \u0906\u092A\u0915\u093E \u0915\u0949\u0932\u0947\u091C \u0938\u0939\u093E\u092F\u0915 \u0939\u0942\u0901\u0964 \u0906\u091C \u092E\u0948\u0902 \u0906\u092A\u0915\u0940 \u0915\u0948\u0938\u0947 \u0938\u0939\u093E\u092F\u0924\u093E \u0915\u0930 \u0938\u0915\u0924\u093E \u0939\u0942\u0901?"
greeting_hi ==
    <<2344, 2350, 2360, 2381, 2340, 2375, 33, 32, 2350, 2376, 2306, 32, 2310, 2346, 2325, 2366, 32,
      2325, 2377, 2354, 2375, 2332, 32, 2360, 2361, 2366, 2351, 2325, 32, 2361, 2370, 2305, 2404,
      32, 2310, 2332, 32, 2350, 2376, 2306, 32, 2310, 2346, 2325, 2368, 32, 2325, 2376, 2360, 2375,
      32, 2360, 2361, 2366, 2351, 2340, 2366, 32, 2325, 2352, 32, 2360, 2325, 2340, 2366, 32, 2361,
      2370, 2305, 63>>
\* line 606: "\u0930\u093E\u092E \u0930\u093E\u092E! \u0939\u0942\u0901 \u0925\u093E\u0930\u094B \u0915\u0949\u0932\u0947\u091C \u0938\u0939\u093E\u092F\u0915\u0964 \u0906\u091C \u092E\u094D\u0939\u0947 \u0925\u093E\u0930\u0940 \u0915\u0948\u0938\u0940 \u092E\u0926\u0926 \u0915\u0930\u0923\u0940 \u0939\u0948?"
greeting_raj ==
    <<2352, 2366, 2350, 32, 2352, 2366, 2350, 33, 32, 2361, 2370, 2305, 32, 2341, 2366, 2352, 2379,
      32, 2325, 2377, 2354, 2375, 2332, 32, 2360, 2361, 2366, 2351, 2325, 2404, 32, 2310, 2332, 32,
      2350, 2381, 2361, 2375, 32, 2341, 2366, 2352, 2368, 32, 2325, 2376, 2360, 2368, 32, 2350,
      2342, 2342, 32, 2325, 2352, 2339, 2368, 32, 2361, 2376, 63>>
\* line 618: "I'm sorry, I couldn't understand your question. Could you please rephrase it?"
msg_en_general ==
    <<73, 39, 109, 32, 115, 111, 114, 114, 121, 44, 32, 73, 32, 99, 111, 117, 108, 100, 110, 39,
      116, 32, 117, 110, 100, 101, 114, 115, 116, 97, 110, 100, 32, 121, 111, 117, 114, 32, 113,
      117, 101, 115, 116, 105, 111, 110, 46, 32, 67, 111, 117, 108, 100, 32, 121, 111, 117, 32,
      112, 108, 101, 97, 115, 101, 32, 114, 101, 112, 104, 114, 97, 115, 101, 32, 105, 116, 63>>
\* line 619: "I don't have enough information to answer that question."
msg_en_noContext ==
    <<73, 32, 100, 111, 110, 39, 116, 32, 104, 97, 118, 101, 32, 101, 110, 111, 117, 103, 104, 32,
      105, 110, 102, 111, 114, 109, 97, 116, 105, 111, 110, 32, 116, 111, 32, 97, 110, 115, 119,
      101, 114, 32, 116, 104, 97, 116, 32, 113, 117, 101, 115, 116, 105, 111, 110, 46>>
\* line 620: "I'm experiencing some technical difficulties. Please try again later."
msg_en_technical ==
    <<73, 39, 109, 32, 101, 120, 112, 101, 114, 105, 101, 110, 99, 105, 110, 103, 32, 115, 111,
      109, 101, 32, 116, 101, 99, 104, 110, 105, 99, 97, 108, 32, 100, 105, 102, 102, 105, 99, 117,
      108, 116, 105, 101, 115, 46, 32, 80, 108, 101, 97, 115, 101, 32, 116, 114, 121, 32, 97, 103,
      97, 105, 110, 32, 108, 97, 116, 101, 114, 46>>
\* line 623: "\u092E\u0941\u091D\u0947 \u0916\u0941\u0936\u0940 \u0939\u0948 \u0915\u093F \u0906\u092A\u0928\u0947 \u092A\u0942\u091B\u093E, \u0932\u0947\u0915\u093F\u0928 \u092E\u0948\u0902 \u0906\u092A\u0915\u093E \u092A\u094D\u0930\u0936\u094D\u0928 \u0938\u092E\u091D \u0928\u0939\u0940\u0902 \u0938\u0915\u093E\u0964 \u0915\u0943\u092A\u092F\u093E \u0907\u0938\u0947 \u0926\u094B\u092C\u093E\u0930\u093E \u092A\u0942\u091B\u0947\u0902\u0964"
msg_hi_general ==
    <<2350, 2369, 2333, 2375, 32, 2326, 2369, 2358, 2368, 32, 2361, 2376, 32, 2325, 2367, 32, 2310,
      2346, 2344, 2375, 32, 2346, 2370, 2331, 2366, 44, 32, 2354, 2375, 2325, 2367, 2344, 32, 2350,
      2376, 2306, 32, 2310, 2346, 2325, 2366, 32, 2346, 2381, 2352, 2358, 2381, 2344, 32, 2360,
      2350, 2333, 32, 2344, 2361, 2368, 2306, 32, 2360, 2325, 2366, 2404, 32, 2325, 2371, 2346,
      2351, 2366, 32, 2311, 2360, 2375, 32, 2342, 2379, 2348, 2366, 2352, 2366, 32, 2346, 2370,
      2331, 2375, 2306, 2404>>
\* line 624: "\u092E\u0947\u0930\u0947 \u092A\u093E\u0938 \u0907\u0938 \u092A\u094D\u0930\u0936\u094D\u0928 \u0915\u093E \u0909\u0924\u094D\u0924\u0930 \u0926\u0947\u0928\u0947 \u0915\u0947 \u0932\u093F\u090F \u092A\u0930\u094D\u092F\u093E\u092A\u094D\u0924 \u091C\u093E\u0928\u0915\u093E\u0930\u0940 \u0928\u0939\u0940\u0902 \u0939\u0948\u0964"
msg_hi_noContext ==
    <<2350, 2375, 2352, 2375, 32, 2346, 2366, 2360, 32, 2311, 2360, 32, 2346, 2381, 2352, 2358,
      2381, 2344, 32, 2325, 2366, 32, 2313, 2340, 2381, 2340, 2352, 32, 2342, 2375, 2344, 2375, 32,
      2325, 2375, 32, 2354, 2367, 2319, 32, 2346, 2352, 2381, 2351, 2366, 2346, 2381, 2340, 32,
      2332, 2366, 2344, 2325, 2366, 2352, 2368, 32, 2344, 2361, 2368, 2306, 32, 2361, 2376, 2404>>
\* line 625: "\u092E\u0941\u091D\u0947 \u0915\u0941\u091B \u0924\u0915\u0928\u0940\u0915\u0940 \u0938\u092E\u0938\u094D\u092F\u093E\u090F\u0902 \u0906 \u0930\u0939\u0940 \u0939\u0948\u0902\u0964 \u0915\u0943\u092A\u092F\u093E \u092C\u093E\u0926 \u092E\u0947\u0902 \u092B\u093F\u0930 \u0915\u094B\u0936\u093F\u0936 \u0915\u0930\u0947\u0902\u0964"
msg_hi_technical ==
    <<2350, 2369, 2333, 2375, 32, 2325, 2369, 2331, 32, 2340, 2325, 2344, 2368, 2325, 2368, 32,
      2360, 2350, 2360, 2381, 2351, 2366, 2319, 2306, 32, 2310, 32, 2352, 2361, 2368, 32, 2361,
      2376, 2306, 2404, 32, 2325, 2371, 2346, 2351, 2366, 32, 2348, 2366, 2342, 32, 2350, 2375,
      2306, 32, 2347, 2367, 2352, 32, 2325, 2379, 2358, 2367, 2358, 32, 2325, 2352, 2375, 2306,
      2404>>
\* line 628: "\u092E\u094D\u0939\u0947 \u0916\u0941\u0936\u0940 \u0939\u0948 \u0915\u093F \u0925\u092E\u0928\u0947 \u092A\u0942\u091B\u094D\u092F\u094B, \u092A\u0923 \u092E\u094D\u0939\u0947 \u0925\u093E\u0930\u094B \u0938\u0935\u093E\u0932 \u0938\u092E\u091D \u0915\u094B\u0928\u0940 \u0906\u092F\u094B\u0964 \u0915\u0943\u092A\u092F\u093E \u0926\u094B\u092C\u093E\u0930\u093E \u092A\u0942\u091B\u094B\u0964"
msg_raj_general ==
    <<2350, 2381, 2361, 2375, 32, 2326, 2369, 2358, 2368, 32, 2361, 2376, 32, 2325, 2367, 32, 2341,
      2350, 2344, 2375, 32, 2346, 2370, 2331, 2381, 2351, 2379, 44, 32, 2346, 2339, 32, 2350, 2381,
      2361, 2375, 32, 2341, 2366, 2352, 2379, 32, 2360, 2357, 2366, 2354, 32, 2360, 2350, 2333, 32,
      2325, 2379, 2344, 2368, 32, 2310, 2351, 2379, 2404, 32, 2325, 2371, 2346, 2351, 2366, 32,
      2342, 2379, 2348, 2366, 2352, 2366, 32, 2346, 2370, 2331, 2379, 2404>>
\* line 629: "\u092E\u094D\u0939\u093E\u0930\u0947 \u0915\u0948\u0902 \u0907\u0938 \u0938\u0935\u093E\u0932 \u0915\u094B \u091C\u0935\u093E\u092C \u0926\u0947\u0935\u0923 \u0916\u093E\u0924\u0930 \u0915\u093E\u092B\u0940 \u091C\u093E\u0923\u0915\u093E\u0930\u0940 \u0915\u094B\u0928\u0940 \u0939\u0948\u0964"
msg_raj_noContext ==
    <<2350, 2381, 2361, 2366, 2352, 2375, 32, 2325, 2376, 2306, 32, 2311, 2360, 32, 2360, 2357,
      2366, 2354, 32, 2325, 2379, 32, 2332, 2357, 2366, 2348, 32, 2342, 2375, 2357, 2339, 32, 2326,
      2366, 2340, 2352, 32, 2325, 2366, 2347, 2368, 32, 2332, 2366, 2339, 2325, 2366, 2352, 2368,
      32, 2325, 2379, 2344, 2368, 32, 2361, 2376, 2404>>
\* line 630: "\u092E\u094D\u0939\u0947 \u0915\u0941\u091B \u0924\u0915\u0928\u0940\u0915\u0940 \u0926\u093F\u0915\u094D\u0915\u0924 \u0906\u0935\u0948 \u0930\u0939\u0940 \u0939\u0948\u0964 \u0915\u0943\u092A\u092F\u093E \u092C\u093E\u0926 \u092E\u0947\u0902 \u092B\u093F\u0930 \u0915\u094B\u0936\u093F\u0936 \u0915\u0930\u094B\u0964"
msg_raj_technical ==
    <<2350, 2381, 2361, 2375, 32, 2325, 2369, 2331, 32, 2340, 2325, 2344, 2368, 2325, 2368, 32,
      2342, 2367, 2325, 2381, 2325, 2340, 32, 2310, 2357, 2376, 32, 2352, 2361, 2368, 32, 2361,
      2376, 2404, 32, 2325, 2371, 2346, 2351, 2366, 32, 2348, 2366, 2342, 32, 2350, 2375, 2306, 32,
      2347, 2367, 2352, 32, 2325, 2379, 2358, 2367, 2358, 32, 2325, 2352, 2379, 2404>>
\* line 371: "Based on the information I have: "
prefix_en ==
    <<66, 97, 115, 101, 100, 32, 111, 110, 32, 116, 104, 101, 32, 105, 110, 102, 111, 114, 109, 97,
      116, 105, 111, 110, 32, 73, 32, 104, 97, 118, 101, 58, 32>>
\* line 372: "\u0909\u092A\u0932\u092C\u094D\u0927 \u091C\u093E\u0928\u0915\u093E\u0930\u0940 \u0915\u0947 \u0906\u0927\u093E\u0930 \u092A\u0930: "
prefix_hi ==
    <<2313, 2346, 2354, 2348, 2381, 2343, 32, 2332, 2366, 2344, 2325, 2366, 2352, 2368, 32, 2325,
      2375, 32, 2310, 2343, 2366, 2352, 32, 2346, 2352, 58, 32>>
\* line 373: "\u0909\u092A\u0932\u092C\u094D\u0927 \u091C\u093E\u0923\u0915\u093E\u0930\u0940 \u0915\u0947 \u0906\u0927\u093E\u0930 \u092A\u0930: "
prefix_raj ==
    <<2313, 2346, 2354, 2348, 2381, 2343, 32, 2332, 2366, 2339, 2325, 2366, 2352, 2368, 32, 2325,
      2375, 32, 2310, 2343, 2366, 2352, 32, 2346, 2352, 58, 32>>
\* ---- alternatives of the greeting pattern (chatController.ts line 44), as stored in the file ----
\* hi | hello | hey | namaste | \u2021\u00A7\u221E\u2021\u00A7\u00E6\u2021\u00A7\u00C6 \u2021\u00A7\u221E\u2021\u00A7\u00E6\u2021\u00A7\u00C6 | \u2021\u00A7\u00AE\u2021\u00A7\u00C6\u2021\u00A7\u220F\u2021\u2022\u00E7\u2021\u00A7\u00A7\u2021\u2022\u00E1
greetingAlternatives ==
    { <<104, 105>>,
      <<104, 101, 108, 108, 111>>,
      <<104, 101, 121>>,
      <<110, 97, 109, 97, 115, 116, 101>>,
      <<8225, 167, 8734, 8225, 167, 230, 8225, 167, 198, 32, 8225, 167, 8734, 8225, 167, 230, 8225, 167, 198>>,
      <<8225, 167, 174, 8225, 167, 198, 8225, 167, 8719, 8225, 8226, 231, 8225, 167, 167, 8225, 8226, 225>> }
\* ---- request inputs ----
\* ""
m_empty == <<>>
\* "   "
m_blank == <<32, 32, 32>>
\* "hello"
m_hello == <<104, 101, 108, 108, 111>>
\* " Hello! "
m_Hello_padded == <<32, 72, 101, 108, 108, 111, 33, 32>>
\* "hi"
m_hi == <<104, 105>>
\* "history of the college"
m_history ==
    <<104, 105, 115, 116, 111, 114, 121, 32, 111, 102, 32, 116, 104, 101, 32, 99, 111, 108, 108,
      101, 103, 101>>
\* "\u0928\u092E\u0938\u094D\u0924\u0947"
m_namaste == <<2344, 2350, 2360, 2381, 2340, 2375>>
\* "library hours"
m_library == <<108, 105, 98, 114, 97, 114, 121, 32, 104, 111, 117, 114, 115>>
\* "students"
m_students == <<115, 116, 117, 100, 101, 110, 116, 115>>
\* "a library"
m_a_library == <<97, 32, 108, 105, 98, 114, 97, 114, 121>>
\* "asdkjasdlk random gibberish"
m_gibberish ==
    <<97, 115, 100, 107, 106, 97, 115, 100, 108, 107, 32, 114, 97, 110, 100, 111, 109, 32, 103,
      105, 98, 98, 101, 114, 105, 115, 104>>
\* "\u0915\u0949\u0932\u0947\u091C \u0936\u0941\u0932\u094D\u0915 \u0915\u094D\u092F\u093E \u0939\u0948"
m_hindi ==
    <<2325, 2377, 2354, 2375, 2332, 32, 2358, 2369, 2354, 2381, 2325, 32, 2325, 2381, 2351, 2366,
      32, 2361, 2376>>
\* "hi" followed by the Hindi question
m_hi_hindi == <<104, 105, 32>> \o m_hindi

\* ""
sid_empty == <<>>
\* "sess-0001"
sid_short == <<115, 101, 115, 115, 45, 48, 48, 48, 49>>
\* "sess-00001"
sid_S1 == <<115, 101, 115, 115, 45, 48, 48, 48, 48, 49>>
\* "sess-00002"
sid_S2 == <<115, 101, 115, 115, 45, 48, 48, 48, 48, 50>>
\* "Generated answer."
txt_generated == <<71, 101, 110, 101, 114, 97, 116, 101, 100, 32, 97, 110, 115, 119, 101, 114, 46>>
\* "session_"
str_doc_ == <<100, 111, 99, 45>>
str_session_ == <<115, 101, 115, 115, 105, 111, 110, 95>>
\* "k3j9x0q2m"
rnd_a == <<107, 51, 106, 57, 120, 48, 113, 50, 109>>
\* "z"
rnd_b == <<122>>

\* ======================= strings =======================

\* undefined, for a string-valued field that is absent
Undefined == <<-1>>

\* JavaScript truthiness of a string | undefined value
Truthy(s) == s # Undefined /\ s # <<>>

\* \s of a JavaScript regular expression, and the set String.prototype.trim strips
WhiteSpace ==
    {9, 10, 11, 12, 13, 32, 160, 5760, 8232, 8233, 8239, 8287, 12288, 65279} \cup (8192..8202)

\* String.prototype.toLowerCase on one code unit (ASCII and Latin-1 letters; the
\* other scripts used by the program's strings have no case)
toLowerCaseChar(c) ==
    IF c \in 65..90 \/ (c \in 192..222 /\ c # 215) THEN c + 32 ELSE c

toLowerCase(s) == [i \in DOMAIN s |-> toLowerCaseChar(s[i])]

\* a variant of trim that strips nothing
untrimmed(s) == s

\* String.prototype.trim
trim(s) ==
    LET n == Len(s)
        nonWs == {i \in 1..n : s[i] \notin WhiteSpace}
    IN  IF nonWs = {} THEN <<>>
        ELSE LET first == CHOOSE i \in 1..n :
                              s[i] \notin WhiteSpace /\ \A j \in 1..(i - 1) : s[j] \in WhiteSpace
                 last  == CHOOSE i \in 1..n :
                              s[i] \notin WhiteSpace /\ \A j \in (i + 1)..n : s[j] \in WhiteSpace
             IN  SubSeq(s, first, last)

\* String.prototype.includes
includes(s, w) ==
    \E i \in 0..(Len(s) - Len(w)) : \A j \in 1..Len(w) : s[i + j] = w[j]

\* the elements of a finite set of integers in ascending order
RECURSIVE Ascending(_)
Ascending(S) ==
    IF S = {} THEN <<>>
    ELSE LET m == CHOOSE x \in S : \A y \in S : x <= y
         IN  <<m>> \o Ascending(S \ {m})

\* String.prototype.split(/\s+/): the maximal runs of non-whitespace, with an empty
\* first (last) piece when the string starts (ends) with whitespace or is empty
splitWhitespace(s) ==
    LET n == Len(s)
        starts == {i \in 1..n : s[i] \notin WhiteSpace /\ (i = 1 \/ s[i - 1] \in WhiteSpace)}
        endOf(i) == CHOOSE j \in i..n :
                        (j = n \/ s[j + 1] \in WhiteSpace)
                        /\ \A k \in i..j : s[k] \notin WhiteSpace
        order == Ascending(starts)
        words == [x \in DOMAIN order |-> SubSeq(s, order[x], endOf(order[x]))]
    IN  IF n = 0 THEN << <<>> >>
        ELSE (IF s[1] \in WhiteSpace THEN << <<>> >> ELSE <<>>)
             \o words
             \o (IF s[n] \in WhiteSpace THEN << <<>> >> ELSE <<>>)

\* Array.prototype.join(sep)
RECURSIVE join(_, _)
join(parts, sep) ==
    IF Len(parts) = 0 THEN <<>>
    ELSE IF Len(parts) = 1 THEN parts[1]
    ELSE parts[1] \o sep \o join(Tail(parts), sep)

\* the decimal digits of a natural number, as a string
RECURSIVE digits(_)
digits(n) == IF n < 10 THEN <<48 + n>> ELSE digits(n \div 10) \o <<48 + (n % 10)>>

Min2(a, b) == IF a <= b THEN a ELSE b

\* ======================= languageUtils =======================

SupportedLanguage == {"en", "hi", "raj"}

\* a variant of LanguageGiven for which no language is ever given
LanguageNeverGiven(language) == FALSE

\* a language field that is neither undefined nor the empty string (JavaScript truthiness)
LanguageGiven(language) == language \notin {"undefined", ""}

\* the script pattern of a language: /[a-zA-Z]/g or /[\u0900-\u097F]/g
scriptRange(lang) ==
    IF lang = "en" THEN (65..90) \cup (97..122) ELSE 2304..2431

keywordsOf(lang) ==
    IF lang = "en" THEN keywords_en ELSE IF lang = "hi" THEN keywords_hi ELSE keywords_raj

\* (text.match(pattern.script) || []).length
scriptMatches(text, lang) ==
    Cardinality({i \in DOMAIN text : text[i] \in scriptRange(lang)})

\* pattern.keywords.filter(keyword => cleanText.includes(keyword.toLowerCase())).length
keywordMatches(cleanText, lang) ==
    Cardinality({i \in DOMAIN keywordsOf(lang) :
                    includes(cleanText, toLowerCase(keywordsOf(lang)[i]))})

\* franc's answer for a text: a three-letter code, or the call throws
FrancCodes == {"eng", "hin", "und"}
FrancOutcomes == FrancCodes \cup {"throws"}

\* a variant of francBonus in which the answer of franc outweighs every keyword
francBonusDominant(lang, detectedCode) ==
    IF (lang = "en" /\ detectedCode = "eng") \/ (lang = "hi" /\ detectedCode = "hin")
    THEN 400 ELSE 0

\* francBonus[lang]: detectedCode === 'eng' ? 0.4 : 0, and 'hin' for Hindi, in tenths
francBonus(lang, detectedCode) ==
    IF (lang = "en" /\ detectedCode = "eng") \/ (lang = "hi" /\ detectedCode = "hin")
    THEN 4 ELSE 0

\* a variant of scoreOf that leaves the keywords out
scoreOfScriptOnly(text, lang, bonus) == bonus + 3 * scriptMatches(text, lang)

\* a language's raw score in tenths: bonus + 0.3 per script character + 0.7 per keyword
scoreOf(text, lang, bonus) ==
    bonus + 3 * scriptMatches(text, lang) + 7 * keywordMatches(trim(toLowerCase(text)), lang)

\* Math.min(score / 10, 1), in hundredths
confidenceOf(score) == Min2(score, 100)

\* primaryResult.confidence < 0.2 in double arithmetic: 0.4 + 3 * 0.3 + 0.7 evaluates
\* to 1.9999999999999998, so that one score of exactly 2.0 is below the floor as well
belowFloor(text, lang, bonus) ==
    \/ confidenceOf(scoreOf(text, lang, bonus)) < 20
    \/ (bonus = 4 /\ scriptMatches(text, lang) = 3
                  /\ keywordMatches(trim(toLowerCase(text)), lang) = 1)

\* Array.prototype.sort with (a, b) => b.score - a.score: descending and stable
RECURSIVE insertDescending(_, _)
insertDescending(sorted, x) ==
    IF Len(sorted) = 0 THEN <<x>>
    ELSE IF sorted[Len(sorted)].score >= x.score THEN Append(sorted, x)
    ELSE Append(insertDescending(SubSeq(sorted, 1, Len(sorted) - 1), x), sorted[Len(sorted)])

RECURSIVE sortDescending(_)
sortDescending(items) ==
    IF Len(items) = 0 THEN <<>>
    ELSE insertDescending(sortDescending(SubSeq(items, 1, Len(items) - 1)), items[Len(items)])

\* detectLanguage(text), given what franc answers for the text
detectLanguage(text, franc) ==
    IF ~Truthy(text) \/ Len(trim(text)) = 0
    THEN [language |-> "en", confidence |-> 50, alternatives |-> <<>>]
    ELSE IF franc # "throws"
    THEN LET entries == <<"en", "hi", "raj">>
             scored == [i \in 1..3 |->
                          [language |-> entries[i],
                           score |-> scoreOf(text, entries[i], francBonus(entries[i], franc))]]
             sortedScores == sortDescending(scored)
             primary == sortedScores[1]
             IsAlternative(x) == confidenceOf(x.score) > 10
             alternatives ==
                 LET rest == SelectSeq(SubSeq(sortedScores, 2, 3), IsAlternative)
                 IN  [i \in DOMAIN rest |->
                        [language |-> rest[i].language, confidence |-> confidenceOf(rest[i].score)]]
         IN  IF belowFloor(text, primary.language, francBonus(primary.language, franc))
             THEN [language |-> "en", confidence |-> 50, alternatives |-> alternatives]
             ELSE [language |-> primary.language,
                   confidence |-> confidenceOf(primary.score),
                   alternatives |-> alternatives]
    ELSE \* franc threw: scores.reduce((a, b) => a[1] > b[1] ? a : b) over en, hi, raj
         LET en  == scoreOf(text, "en", 0)
             hi  == scoreOf(text, "hi", 0)
             raj == scoreOf(text, "raj", 0)
             ab  == IF en > hi THEN [language |-> "en", score |-> en]
                               ELSE [language |-> "hi", score |-> hi]
             best == IF ab.score > raj THEN ab ELSE [language |-> "raj", score |-> raj]
         IN  [language |-> best.language, confidence |-> confidenceOf(best.score),
              alternatives |-> <<>>]

\* a variant of getGreeting that ignores the language
getGreetingInEnglish(language) == greeting_en

\* getGreeting(language): greetings[language] || greetings[ENGLISH]
getGreeting(language) ==
    IF language = "hi" THEN greeting_hi
    ELSE IF language = "raj" THEN greeting_raj
    ELSE greeting_en

\* getErrorMessage(language, errorType):
\*   errorMessages[language]?.[errorType] || errorMessages[ENGLISH]?.general || "I'm sorry, ..."
getErrorMessage(language, errorType) ==
    IF language \in SupportedLanguage /\ errorType \in {"general", "noContext", "technical"}
    THEN CASE language = "en"  /\ errorType = "general"   -> msg_en_general
           [] language = "en"  /\ errorType = "noContext" -> msg_en_noContext
           [] language = "en"  /\ errorType = "technical" -> msg_en_technical
           [] language = "hi"  /\ errorType = "general"   -> msg_hi_general
           [] language = "hi"  /\ errorType = "noContext" -> msg_hi_noContext
           [] language = "hi"  /\ errorType = "technical" -> msg_hi_technical
           [] language = "raj" /\ errorType = "general"   -> msg_raj_general
           [] language = "raj" /\ errorType = "noContext" -> msg_raj_noContext
           [] language = "raj" /\ errorType = "technical" -> msg_raj_technical
    ELSE msg_en_general

\* ======================= ragUtils =======================

\* the knowledge base, a module-level array that starts as collegeDocuments0
\* and grows by addDocument
VARIABLE collegeDocuments

\* the score of one document: the query words its lowercased content includes
documentScore(doc, queryWords) ==
    Cardinality({i \in DOMAIN queryWords : includes(toLowerCase(doc.content), queryWords[i])})

\* a variant of searchDocuments that searches the documents of every language
searchDocumentsOfAnyLanguage(query, language, failed) ==
    IF failed THEN <<>>
    ELSE LET queryWords == splitWhitespace(toLowerCase(query))
             scoredDocs == [i \in DOMAIN collegeDocuments |->
                              [doc |-> collegeDocuments[i],
                               score |-> documentScore(collegeDocuments[i], queryWords)]]
             Positive(item) == item.score > 0
             ranked == sortDescending(SelectSeq(scoredDocs, Positive))
             top == SubSeq(ranked, 1, Min2(3, Len(ranked)))
         IN  [i \in DOMAIN top |-> top[i].doc]

\* searchDocuments(query, language); failed: an exception inside its try block
searchDocuments(query, language, failed) ==
    IF failed THEN <<>>
    ELSE LET InLanguage(doc) == doc.metadata.language = language
             InEnglish(doc) == doc.metadata.language = "en"
             languageSpecificDocs == SelectSeq(collegeDocuments, InLanguage)
             searchDocs == IF Len(languageSpecificDocs) > 0
                           THEN languageSpecificDocs
                           ELSE SelectSeq(collegeDocuments, InEnglish)
             queryWords == splitWhitespace(toLowerCase(query))
             scoredDocs == [i \in DOMAIN searchDocs |->
                              [doc |-> searchDocs[i],
                               score |-> documentScore(searchDocs[i], queryWords)]]
             Positive(item) == item.score > 0
             ranked == sortDescending(SelectSeq(scoredDocs, Positive))
             top == SubSeq(ranked, 1, Min2(3, Len(ranked)))
         IN  [i \in DOMAIN top |-> top[i].doc]

\* a variant of generateFallbackResponse that surfaces the last snippet
generateFallbackResponseOfLast(query, context, language) ==
    IF Len(context) = 0 THEN getErrorMessage(language, "noContext")
    ELSE LET contextSummary == context[Len(context)]
         IN  IF language = "hi" THEN prefix_hi \o contextSummary
             ELSE IF language = "raj" THEN prefix_raj \o contextSummary
             ELSE prefix_en \o contextSummary

\* generateFallbackResponse(query, context, language)
generateFallbackResponse(query, context, language) ==
    IF Len(context) = 0 THEN getErrorMessage(language, "noContext")
    ELSE LET contextSummary == context[1]
         IN  IF language = "hi" THEN prefix_hi \o contextSummary
             ELSE IF language = "raj" THEN prefix_raj \o contextSummary
             ELSE prefix_en \o contextSummary

\* what the hf.textGeneration call can come to: generated text (possibly empty), a
\* rejected call, or an exception outside the inner try block
HfOutcomes ==
    { [kind |-> "text", text |-> txt_generated],
      [kind |-> "text", text |-> <<>>],
      [kind |-> "apiError", text |-> <<>>],
      [kind |-> "internalError", text |-> <<>>] }

\* generateContextualResponse(query, context, language)
generateContextualResponse(query, context, language, hf) ==
    IF hf.kind = "internalError" THEN getErrorMessage(language, "technical")
    ELSE IF hf.kind = "text" /\ Truthy(hf.text) THEN hf.text
    ELSE generateFallbackResponse(query, context, language)

\* processRAGQuery, the return when no document is relevant
ragNoContext(detectedLanguage) ==
    [answer |-> getErrorMessage(detectedLanguage, "noContext"),
     context |-> <<>>, confidence |-> 10, sources |-> <<>>, language |-> detectedLanguage]

\* a variant of ragAnswer whose confidence starts from the 0.1 of the other returns
ragAnswerFromFloor(answer, relevantDocs, detectedLanguage) ==
    [answer |-> answer,
     context |-> [i \in DOMAIN relevantDocs |-> relevantDocs[i].content],
     confidence |-> Min2(10 + Len(relevantDocs) * 20, 90),
     sources |-> [i \in DOMAIN relevantDocs |-> relevantDocs[i].metadata.source],
     language |-> detectedLanguage]

\* processRAGQuery, the return after generation: Math.min(0.3 + n * 0.2, 0.9)
ragAnswer(answer, relevantDocs, detectedLanguage) ==
    [answer |-> answer,
     context |-> [i \in DOMAIN relevantDocs |-> relevantDocs[i].content],
     confidence |-> Min2(30 + Len(relevantDocs) * 20, 90),
     sources |-> [i \in DOMAIN relevantDocs |-> relevantDocs[i].metadata.source],
     language |-> detectedLanguage]

\* a variant of ragFailure that ignores userLanguage
ragFailureInEnglish(userLanguage) ==
    [answer |-> getErrorMessage("en", "technical"),
     context |-> <<>>, confidence |-> 10, sources |-> <<>>, language |-> "en"]

\* processRAGQuery, the catch block
ragFailure(userLanguage) ==
    LET fallbackLanguage == IF LanguageGiven(userLanguage) THEN userLanguage ELSE "en"
    IN  [answer |-> getErrorMessage(fallbackLanguage, "technical"),
         context |-> <<>>, confidence |-> 10, sources |-> <<>>, language |-> fallbackLanguage]

\* the names every object literal inherits from Object.prototype: reading one of
\* them from {} gives a function (an object for __proto__), never undefined
ObjectPrototypeKeys ==
    {"constructor", "toString", "toLocaleString", "valueOf", "hasOwnProperty",
     "isPrototypeOf", "propertyIsEnumerable", "__proto__", "__defineGetter__",
     "__defineSetter__", "__lookupGetter__", "__lookupSetter__"}

\* acc[category] = (acc[category] || 0) + 1: a number is counted up; anything else
\* truthy is turned into a string and "1" is put after it (ones: how many); the
\* assignment to __proto__ of a string is dropped by its setter
countCategory(acc, category) ==
    IF category = "__proto__" THEN acc
    ELSE [k \in DOMAIN acc \cup {category} |->
             IF k # category THEN acc[k]
             ELSE IF k \in DOMAIN acc
             THEN (IF acc[k].type = "number"
                   THEN [type |-> "number", value |-> acc[k].value + 1]
                   ELSE [type |-> "string", value |-> acc[k].value + 1])
             ELSE IF k \in ObjectPrototypeKeys
             THEN [type |-> "string", value |-> 1]
             ELSE [type |-> "number", value |-> 1]]

\* collegeDocuments.reduce(..., {}) over the first n documents
RECURSIVE byCategoryOf(_, _)
byCategoryOf(docs, n) ==
    IF n = 0 THEN << >>
    ELSE countCategory(byCategoryOf(docs, n - 1), docs[n].metadata.category)

\* getDocumentStats()
getDocumentStats ==
    [totalDocuments |-> Len(collegeDocuments),
     byLanguage |->
        [l \in SupportedLanguage |->
            Cardinality({i \in DOMAIN collegeDocuments :
                            collegeDocuments[i].metadata.language = l})],
     byCategory |-> byCategoryOf(collegeDocuments, Len(collegeDocuments))]

\* ======================= middleware =======================

\* the User collection: three active accounts, one deactivated
UserIds == {"u1", "u2", "u3", "u4"}

users ==
    [id \in UserIds |->
        [isActive |-> id # "u4",
         role |-> IF id = "u1" THEN "student"
                  ELSE IF id = "u2" THEN "teacher"
                  ELSE IF id = "u3" THEN "admin" ELSE "student"]]

\* an Authorization header: none (or not a Bearer one), a token jwt.verify rejects
\* (malformed, expired), or a token that verifies and carries a user id
NoToken == [kind |-> "none", id |-> ""]
MalformedToken == [kind |-> "malformed", id |-> ""]
ExpiredToken == [kind |-> "expired", id |-> "u1"]
TokenOf(id) == [kind |-> "valid", id |-> id]

\* a variant of optionalAuth that takes the user from any token
optionalAuthOfAnyToken(token) == token.id

\* optionalAuth: req.user, or "" when the request goes on without a user
optionalAuth(token) ==
    IF token.kind = "valid" /\ token.id \in UserIds /\ users[token.id].isActive
    THEN token.id ELSE ""

\* authenticate: the user, or the error handed to next()
authenticate(token) ==
    IF token.kind = "none"
    THEN [ok |-> FALSE, status |-> 401, user |-> "", message |-> "Access denied. No token provided."]
    ELSE IF token.kind \in {"malformed", "expired"}
    THEN [ok |-> FALSE, status |-> 401, user |-> "", message |-> "Invalid token"]
    ELSE IF token.id \notin UserIds
    THEN [ok |-> FALSE, status |-> 401, user |-> "", message |-> "User not found"]
    ELSE IF ~users[token.id].isActive
    THEN [ok |-> FALSE, status |-> 401, user |-> "", message |-> "Account is deactivated"]
    ELSE [ok |-> TRUE, status |-> 200, user |-> token.id, message |-> ""]

\* a variant of authorize that lets every authenticated user through
authorizeAnyRole(user, roles) ==
    IF user = ""
    THEN [ok |-> FALSE, status |-> 401, message |-> "Access denied. User not authenticated."]
    ELSE [ok |-> TRUE, status |-> 200, message |-> ""]

\* authorize(...roles): passes, or the error handed to next()
authorize(user, roles) ==
    IF user = ""
    THEN [ok |-> FALSE, status |-> 401, message |-> "Access denied. User not authenticated."]
    ELSE IF users[user].role \notin roles
    THEN [ok |-> FALSE, status |-> 403, message |-> "Access denied. Insufficient permissions."]
    ELSE [ok |-> TRUE, status |-> 200, message |-> ""]

\* errorHandler: the response for an AppError(message, statusCode)
errorHandler(message, statusCode) ==
    [status |-> statusCode, success |-> FALSE, message |-> message]

MinMessageLength == 1
MaxMessageLength == 1000
MinSessionIdLength == 10
MaxSessionIdLength == 50

\* body('message').trim(): the sanitizer rewrites req.body.message
sanitizedMessage(message) == IF message = Undefined THEN <<>> ELSE trim(message)

\* a variant of validateChatMessage without the trim() sanitizer
validateChatMessageUntrimmed(body) ==
    /\ body.message # Undefined
    /\ Len(body.message) >= MinMessageLength
    /\ Len(body.message) <= MaxMessageLength
    /\ (body.language # "undefined" => body.language \in SupportedLanguage)
    /\ (body.sessionId # Undefined =>
            /\ Len(body.sessionId) >= MinSessionIdLength
            /\ Len(body.sessionId) <= MaxSessionIdLength)

\* validateChatMessage: validationResult(req).isEmpty()
validateChatMessage(body) ==
    /\ Len(sanitizedMessage(body.message)) >= MinMessageLength
    /\ Len(sanitizedMessage(body.message)) <= MaxMessageLength
    /\ (body.language # "undefined" => body.language \in SupportedLanguage)
    /\ (body.sessionId # Undefined =>
            /\ Len(body.sessionId) >= MinSessionIdLength
            /\ Len(body.sessionId) <= MaxSessionIdLength)

\* ======================= chat controller =======================

\* ChatProvider as mounted: useState([]) and useState(false); calls: the
\* sendMessage calls that await their response, each with its position; sent: how
\* many calls were accepted
ChatProvider0 == [messages |-> <<>>, isLoading |-> FALSE, calls |-> <<>>, sent |-> 0]

VARIABLES
    turns,          \* the chat turns, in arrival order: request, locals, position, response
    chatMessages,   \* the ChatMessage collection, in insertion order
    clock,          \* the server's clock (Date.now()), one tick per document built
    lastOp,         \* the last history, clear-history, analytics or announcement
                    \* request, its response, and the collection before and after it
    inbox,          \* a chat request on its way to the server (<<>>: none)
    call,           \* a direct call of an exported function: its name and arguments
    returned,       \* what that call returned (<<>>: it has not returned)
    announcements,  \* the Announcement collection: the stored documents by _id
    chatProvider    \* the frontend's ChatProvider: its state (messages, isLoading)
                    \* and the sendMessage calls that await their response

vars == <<turns, chatMessages, clock, lastOp, inbox, call, returned, collegeDocuments, announcements, chatProvider>>

\* no direct call is under way
NoCall == [fn |-> "none"]

\* /^(hi|hello|hey|namaste|...)/i.test(message.trim())
isGreeting(message) ==
    LET m == trim(message)
    IN  \E alt \in greetingAlternatives :
            /\ Len(alt) <= Len(m)
            /\ toLowerCase(SubSeq(m, 1, Len(alt))) = toLowerCase(alt)

\* Math.random().toString(36).substr(2, 9)
RandomSuffixes == {rnd_a, rnd_b}

\* a variant of generateSessionId that generates the empty string
generateEmptySessionId(now, rnd) == <<>>

\* generateSessionId(): `session_${Date.now()}_${random suffix}`
generateSessionId(now, rnd) == str_session_ \o digits(now) \o <<95>> \o rnd

\* new ChatMessage({...}) followed by save(): id stands for the document's _id,
\* createdAt is stamped when save() is called
newChatMessage(id, userId, message, response, language, confidence, isFromRAG, context, sessionId, now, rnd) ==
    [id |-> id, userId |-> userId, message |-> trim(message), response |-> response,
     language |-> language, confidence |-> confidence, isFromRAG |-> isFromRAG,
     context |-> context,
     sessionId |-> IF Truthy(sessionId) THEN sessionId ELSE generateSessionId(now, rnd),
     createdAt |-> now]

\* a variant of ragChatMessage that reads the user and the session from the request
\* that arrived last instead of from its own
ragChatMessageOfLatest(id, userId, body, ragResult, now, rnd) ==
    LET latest == IF Len(turns) > 0 THEN turns[Len(turns)]
                  ELSE [userId |-> userId, req |-> body]
    IN  newChatMessage(id, latest.userId, body.message, ragResult.answer, ragResult.language,
                       ragResult.confidence, TRUE, ragResult.context, latest.req.sessionId,
                       now, rnd)

\* the document built from a processRAGQuery result
ragChatMessage(id, userId, body, ragResult, now, rnd) ==
    newChatMessage(id, userId, body.message, ragResult.answer, ragResult.language,
                   ragResult.confidence, TRUE, ragResult.context, body.sessionId, now, rnd)

\* req.user?._id?.toString() || 'anonymous'
userIdOf(user) == IF user # "" THEN user ELSE "anonymous"

\* the 200 response of a turn, from the saved document
chatResponse(doc, hasSources, sources) ==
    [status |-> 200, success |-> TRUE, response |-> doc.response, language |-> doc.language,
     confidence |-> doc.confidence, sessionId |-> doc.sessionId,
     hasSources |-> hasSources, sources |-> sources]

\* processChatMessage from the request's arrival (optionalAuth and the validators
\* included) to its first await of the generative call or of the save, or to the
\* 400 response.  franc: what franc answers; rnd: the random suffix; fault: an
\* exception inside searchDocuments ("searchError") or one that escapes to the catch
\* block of processRAGQuery ("ragThrow").
processChatMessage(r, franc, rnd, fault) ==
    LET id == Len(turns) + 1
        userId == userIdOf(optionalAuth(r.token))
        valid == validateChatMessage(r)
        body == [r EXCEPT !.message = sanitizedMessage(r.message)]
        detects == valid /\ ~LanguageGiven(body.language)
        detectedLanguage ==
            IF LanguageGiven(body.language) THEN body.language
            ELSE detectLanguage(body.message, franc).language
        greets == valid /\ isGreeting(body.message)
        relevantDocs == searchDocuments(body.message, detectedLanguage, fault = "searchError")
        awaitsGeneration == valid /\ ~greets /\ fault # "ragThrow" /\ Len(relevantDocs) > 0
        ragResult == IF fault = "ragThrow" THEN ragFailure(detectedLanguage)
                     ELSE ragNoContext(detectedLanguage)
        now == clock + 1
        doc == IF greets
               THEN newChatMessage(id, userId, body.message, getGreeting(detectedLanguage),
                                   detectedLanguage, 90, FALSE, <<>>, body.sessionId, now, rnd)
               ELSE ragChatMessage(id, userId, body, ragResult, now, rnd)
        base == [req |-> r, userId |-> userId, detectedLanguage |-> "undefined",
                 greeting |-> FALSE, pc |-> "done", relevantDocs |-> <<>>,
                 ragResult |-> <<>>, chatMessage |-> <<>>, res |-> <<>>,
                 detectCalls |-> 0, searchCalls |-> 0, composeCalls |-> 0, saveCalls |-> 0,
                 fault |-> "none", generated |-> <<>>]
    IN  /\ (~detects => franc = "und")
        /\ (~(valid /\ ~greets) => fault = "none")
        /\ (~(valid /\ ~awaitsGeneration /\ ~Truthy(body.sessionId)) => rnd = rnd_a)
        /\ inbox' = <<>>
        /\ lastOp' = lastOp
        /\ chatMessages' = chatMessages
        /\ IF ~valid
           THEN /\ turns' = Append(turns, [base EXCEPT
                                !.res = <<errorHandler("Validation failed", 400)>>])
                /\ clock' = clock
           ELSE IF awaitsGeneration
           THEN /\ turns' = Append(turns, [base EXCEPT
                                !.detectedLanguage = detectedLanguage,
                                !.pc = "generate",
                                !.relevantDocs = relevantDocs,
                                !.detectCalls = IF detects THEN 1 ELSE 0,
                                !.searchCalls = 1,
                                !.composeCalls = 1])
                /\ clock' = clock
           ELSE /\ turns' = Append(turns, [base EXCEPT
                                !.detectedLanguage = detectedLanguage,
                                !.greeting = greets,
                                !.pc = "save",
                                !.ragResult = IF greets THEN <<>> ELSE <<ragResult>>,
                                !.chatMessage = <<doc>>,
                                !.detectCalls = IF detects THEN 1 ELSE 0,
                                !.searchCalls = IF greets \/ fault = "ragThrow" THEN 0 ELSE 1,
                                !.saveCalls = 1,
                                !.fault = fault])
                /\ clock' = now

\* the generative call of turn t comes back (hf), and processRAGQuery returns; escaped:
\* an exception reaches the catch block of processRAGQuery instead
textGenerationReturns(t, hf, escaped, rnd) ==
    LET turn == turns[t]
        body == [turn.req EXCEPT !.message = sanitizedMessage(turn.req.message)]
        context == [i \in DOMAIN turn.relevantDocs |-> turn.relevantDocs[i].content]
        answer == generateContextualResponse(body.message, context, turn.detectedLanguage, hf)
        ragResult == IF escaped THEN ragFailure(turn.detectedLanguage)
                     ELSE ragAnswer(answer, turn.relevantDocs, turn.detectedLanguage)
        now == clock + 1
    IN  /\ turn.pc = "generate"
        /\ (Truthy(body.sessionId) => rnd = rnd_a)
        /\ turns' = [turns EXCEPT ![t] = [turn EXCEPT
                        !.pc = "save",
                        !.ragResult = <<ragResult>>,
                        !.chatMessage = <<ragChatMessage(t, turn.userId, body, ragResult, now, rnd)>>,
                        !.saveCalls = 1,
                        !.fault = IF escaped THEN "ragThrow" ELSE hf.kind,
                        !.generated = <<hf>>]]
        /\ clock' = now
        /\ UNCHANGED <<chatMessages, lastOp, inbox>>

\* a variant of saveReturns that inserts the document twice
saveReturnsTwice(t, saved) ==
    LET turn == turns[t]
        doc == turn.chatMessage[1]
    IN  /\ turn.pc = "save"
        /\ IF saved
           THEN /\ chatMessages' = chatMessages \o <<doc, doc>>
                /\ turns' = [turns EXCEPT ![t] = [turn EXCEPT
                                !.pc = "done",
                                !.res = <<IF turn.greeting
                                          THEN chatResponse(doc, FALSE, <<>>)
                                          ELSE chatResponse(doc, TRUE, turn.ragResult[1].sources)>>]]
           ELSE /\ chatMessages' = chatMessages
                /\ turns' = [turns EXCEPT ![t] = [turn EXCEPT
                                !.pc = "done",
                                !.res = <<errorHandler("Failed to process chat message", 500)>>]]
        /\ UNCHANGED <<clock, lastOp, inbox>>

\* a variant of saveReturns that does not wait for the save: the 200 response is
\* sent whether or not the document is inserted
saveReturnsSwallowed(t, saved) ==
    LET turn == turns[t]
        doc == turn.chatMessage[1]
    IN  /\ turn.pc = "save"
        /\ chatMessages' = IF saved THEN Append(chatMessages, doc) ELSE chatMessages
        /\ turns' = [turns EXCEPT ![t] = [turn EXCEPT
                        !.pc = "done",
                        !.res = <<IF turn.greeting
                                  THEN chatResponse(doc, FALSE, <<>>)
                                  ELSE chatResponse(doc, TRUE, turn.ragResult[1].sources)>>]]
        /\ UNCHANGED <<clock, lastOp, inbox>>

\* chatMessage.save() of turn t settles: the document is inserted and the 200 response
\* sent, or the save rejects and the catch block answers 500 through errorHandler
saveReturns(t, saved) ==
    LET turn == turns[t]
        doc == turn.chatMessage[1]
    IN  /\ turn.pc = "save"
        /\ IF saved
           THEN /\ chatMessages' = Append(chatMessages, doc)
                /\ turns' = [turns EXCEPT ![t] = [turn EXCEPT
                                !.pc = "done",
                                !.res = <<IF turn.greeting
                                          THEN chatResponse(doc, FALSE, <<>>)
                                          ELSE chatResponse(doc, TRUE, turn.ragResult[1].sources)>>]]
           ELSE /\ chatMessages' = chatMessages
                /\ turns' = [turns EXCEPT ![t] = [turn EXCEPT
                                !.pc = "done",
                                !.res = <<errorHandler("Failed to process chat message", 500)>>]]
        /\ UNCHANGED <<clock, lastOp, inbox>>

\* ---------------- history ----------------

DefaultPage == 1
DefaultLimit == 50

\* an optional number of the query string: <<>> when absent, <<n>> otherwise
numberOr(opt, default) == IF Len(opt) = 0 THEN default ELSE opt[1]

\* ChatMessage.find(query) / deleteMany(query): { userId } and, when the request's
\* sessionId is truthy, { sessionId } as well
matchesQuery(doc, userId, sessionId) ==
    doc.userId = userId /\ (Truthy(sessionId) => doc.sessionId = sessionId)

\* .sort({ createdAt: -1 })
sortByCreatedAtDescending(docs) ==
    LET keyed == [i \in DOMAIN docs |-> [doc |-> docs[i], score |-> docs[i].createdAt]]
        sorted == sortDescending(keyed)
    IN  [i \in DOMAIN sorted |-> sorted[i].doc]

\* a page handed on in the order of the query
asFound(s) == s

\* messages.reverse()
reverse(s) == [i \in DOMAIN s |-> s[Len(s) + 1 - i]]

\* a variant of ceilDiv that rounds down
floorDiv(a, b) == a \div b

\* Math.ceil(a / b)
ceilDiv(a, b) == (a + b - 1) \div b

NoPagination ==
    [currentPage |-> 0, totalPages |-> 0, totalItems |-> 0, itemsPerPage |-> 0,
     hasNext |-> FALSE, hasPrev |-> FALSE]

NoOp ==
    [kind |-> "none", req |-> [token |-> NoToken, sessionId |-> Undefined,
                               page |-> <<>>, limit |-> <<>>],
     status |-> 0, success |-> FALSE, data |-> <<>>, pagination |-> NoPagination,
     deletedCount |-> 0, aggregates |-> 0, before |-> <<>>, after |-> <<>>]

\* GET /api/chat/history: authenticate, then getChatHistory (the result of
\* validateHistoryQuery is not read by the controller)
getChatHistory(q) ==
    LET auth == authenticate(q.token)
        page == numberOr(q.page, DefaultPage)
        limit == numberOr(q.limit, DefaultLimit)
        Matches(doc) == matchesQuery(doc, auth.user, q.sessionId)
        found == sortByCreatedAtDescending(SelectSeq(chatMessages, Matches))
        skipped == SubSeq(found, (page - 1) * limit + 1, Len(found))
        messages == SubSeq(skipped, 1, Min2(limit, Len(skipped)))
        totalMessages == Len(SelectSeq(chatMessages, Matches))
        totalPages == ceilDiv(totalMessages, limit)
    IN  /\ lastOp' =
            IF ~auth.ok
            THEN [NoOp EXCEPT !.kind = "history", !.req = q, !.status = auth.status,
                              !.before = chatMessages, !.after = chatMessages]
            ELSE [NoOp EXCEPT !.kind = "history", !.req = q, !.status = 200,
                              !.success = TRUE,
                              !.data = reverse(messages),
                              !.pagination =
                                  [currentPage |-> page, totalPages |-> totalPages,
                                   totalItems |-> totalMessages, itemsPerPage |-> limit,
                                   hasNext |-> page < totalPages, hasPrev |-> page > 1],
                              !.before = chatMessages, !.after = chatMessages]
        /\ UNCHANGED <<turns, chatMessages, clock, inbox>>

\* DELETE /api/chat/history: authenticate, then clearChatHistory (the result of
\* validateClearHistory is not read by the controller)
clearChatHistory(q) ==
    LET auth == authenticate(q.token)
        Matches(doc) == matchesQuery(doc, auth.user, q.sessionId)
        Kept(doc) == ~Matches(doc)
    IN  IF ~auth.ok
        THEN /\ lastOp' = [NoOp EXCEPT !.kind = "clear", !.req = q, !.status = auth.status,
                                       !.before = chatMessages, !.after = chatMessages]
             /\ UNCHANGED <<turns, chatMessages, clock, inbox>>
        ELSE /\ chatMessages' = SelectSeq(chatMessages, Kept)
             /\ lastOp' = [NoOp EXCEPT !.kind = "clear", !.req = q, !.status = 200,
                                       !.success = TRUE,
                                       !.deletedCount = Len(SelectSeq(chatMessages, Matches)),
                                       !.before = chatMessages,
                                       !.after = SelectSeq(chatMessages, Kept)]
             /\ UNCHANGED <<turns, clock, inbox>>

\* 30 * 24 * 60 * 60 * 1000 milliseconds, here in seconds: longer than any run
\* of the model, whose clock starts at 1
ThirtyDays == 30 * 24 * 60 * 60

\* GET /api/chat/analytics: authenticate, authorize(UserRole.ADMIN), then
\* getChatAnalytics (the result of validateAnalyticsQuery is not read by the
\* controller). aggregates counts the ChatMessage.aggregate calls made; failed:
\* the first of them rejects. The averages and the daily counts are left out of
\* the data.
getChatAnalytics(q, failed) ==
    LET auth == authenticate(q.token)
        role == authorize(auth.user, {"admin"})
        start == IF q.startDate # <<>> THEN q.startDate[1] ELSE clock - ThirtyDays
        end == IF q.endDate # <<>> THEN q.endDate[1] ELSE clock
        matched == {i \in DOMAIN chatMessages :
                        /\ chatMessages[i].createdAt >= start
                        /\ chatMessages[i].createdAt <= end}
        languages == {chatMessages[i].language : i \in matched}
        analytics ==
            [messageStats |->
                [totalMessages |-> Cardinality(matched),
                 uniqueUserCount |-> Cardinality({chatMessages[i].userId : i \in matched}),
                 uniqueSessionCount |-> Cardinality({chatMessages[i].sessionId : i \in matched})],
             languageStats |->
                {[language |-> l,
                  count |-> Cardinality({i \in matched : chatMessages[i].language = l})] :
                    l \in languages},
             documentStats |-> getDocumentStats,
             dateRange |-> [start |-> start, end |-> end]]
    IN  /\ lastOp' =
            IF ~auth.ok
            THEN [NoOp EXCEPT !.kind = "analytics", !.req = q, !.status = auth.status,
                              !.before = chatMessages, !.after = chatMessages]
            ELSE IF ~role.ok
            THEN [NoOp EXCEPT !.kind = "analytics", !.req = q, !.status = role.status,
                              !.before = chatMessages, !.after = chatMessages]
            ELSE IF failed
            THEN [NoOp EXCEPT !.kind = "analytics", !.req = q, !.status = 500,
                              !.aggregates = 1,
                              !.before = chatMessages, !.after = chatMessages]
            ELSE [NoOp EXCEPT !.kind = "analytics", !.req = q, !.status = 200,
                              !.success = TRUE, !.data = <<analytics>>,
                              !.aggregates = 3,
                              !.before = chatMessages, !.after = chatMessages]
        /\ UNCHANGED <<turns, chatMessages, clock, inbox>>

\* ======================= announcement controller =======================

\* param('id').isMongoId(): the ids of the model are numbers, 0 standing for a
\* string that is not an ObjectId
isMongoId(id) == id > 0

MinTitleLength == 5
MaxTitleLength == 200

\* validationResult(req).isEmpty() for validateAnnouncementCreation and for
\* validateAnnouncementUpdate, as far as the title goes (the other fields are
\* left out of the model's requests); q.id = 0 on creation
validateAnnouncementCreation(q) ==
    /\ q.body.title # <<>>
    /\ Len(trim(q.body.title[1])) >= MinTitleLength
    /\ Len(trim(q.body.title[1])) <= MaxTitleLength

validateAnnouncementUpdate(q) ==
    /\ isMongoId(q.id)
    /\ (q.body.title # <<>> =>
            /\ Len(trim(q.body.title[1])) >= MinTitleLength
            /\ Len(trim(q.body.title[1])) <= MaxTitleLength)

\* a variant of mayModify that lets every teacher through
mayModifyAsTeacher(user, announcement) == users[user].role \in {"admin", "teacher"}

\* the permission check of updateAnnouncement and deleteAnnouncement: an admin,
\* or the author
mayModify(user, announcement) ==
    ~(users[user].role # "admin" /\ announcement.author # user)

\* the collection with document doc stored under id
stored(id, doc) ==
    [i \in DOMAIN announcements \cup {id} |-> IF i = id THEN doc ELSE announcements[i]]

\* the collection without the document of id
deleted(id) == [i \in DOMAIN announcements \ {id} |-> announcements[i]]

\* a response to an announcement request that changes nothing
refused(kind, q, status) ==
    /\ lastOp' = [NoOp EXCEPT !.kind = kind, !.req = q, !.status = status,
                              !.before = announcements, !.after = announcements]
    /\ UNCHANGED <<announcements, clock>>

\* POST /api/announcements: authenticate, authorize(TEACHER, ADMIN), the
\* validators, then createAnnouncement; the _id is drawn from the clock, and
\* viewCount starts at 0
createAnnouncement(q) ==
    LET auth == authenticate(q.token)
        role == authorize(auth.user, {"teacher", "admin"})
        id == clock + 1
        doc == [title |-> trim(q.body.title[1]), author |-> auth.user,
                isPublished |-> IF q.body.isPublished = <<>> THEN FALSE
                                ELSE q.body.isPublished[1],
                viewCount |-> 0]
    IN  /\ IF ~auth.ok THEN refused("create", q, auth.status)
           ELSE IF ~role.ok THEN refused("create", q, role.status)
           ELSE IF ~validateAnnouncementCreation(q) THEN refused("create", q, 400)
           ELSE /\ announcements' = stored(id, doc)
                /\ clock' = id
                /\ lastOp' = [NoOp EXCEPT !.kind = "create", !.req = q, !.status = 201,
                                          !.success = TRUE, !.data = <<doc>>,
                                          !.before = announcements,
                                          !.after = stored(id, doc)]
        /\ UNCHANGED <<turns, chatMessages, inbox>>

\* PUT /api/announcements/:id: authenticate, authorize(TEACHER, ADMIN), the
\* validators, then updateAnnouncement. saveFails: announcement.save() rejects
updateAnnouncement(q, saveFails) ==
    LET auth == authenticate(q.token)
        role == authorize(auth.user, {"teacher", "admin"})
        announcement == announcements[q.id]
        updated ==
            [announcement EXCEPT
                !.title = IF q.body.title # <<>> THEN trim(q.body.title[1]) ELSE @,
                !.isPublished = IF q.body.isPublished # <<>> THEN q.body.isPublished[1] ELSE @]
    IN  /\ IF ~auth.ok THEN refused("update", q, auth.status)
           ELSE IF ~role.ok THEN refused("update", q, role.status)
           ELSE IF ~validateAnnouncementUpdate(q) THEN refused("update", q, 400)
           ELSE IF q.id \notin DOMAIN announcements THEN refused("update", q, 404)
           ELSE IF ~mayModify(auth.user, announcement) THEN refused("update", q, 403)
           ELSE IF saveFails THEN refused("update", q, 500)
           ELSE /\ announcements' = stored(q.id, updated)
                /\ clock' = clock
                /\ lastOp' = [NoOp EXCEPT !.kind = "update", !.req = q, !.status = 200,
                                          !.success = TRUE, !.data = <<updated>>,
                                          !.before = announcements,
                                          !.after = stored(q.id, updated)]
        /\ UNCHANGED <<turns, chatMessages, inbox>>

\* DELETE /api/announcements/:id: authenticate, authorize(TEACHER, ADMIN), then
\* deleteAnnouncement (the result of validateIdParam is not read by the
\* controller: findById rejects an id that is not an ObjectId, which ends in 500)
deleteAnnouncement(q) ==
    LET auth == authenticate(q.token)
        role == authorize(auth.user, {"teacher", "admin"})
    IN  /\ IF ~auth.ok THEN refused("delete", q, auth.status)
           ELSE IF ~role.ok THEN refused("delete", q, role.status)
           ELSE IF ~isMongoId(q.id) THEN refused("delete", q, 500)
           ELSE IF q.id \notin DOMAIN announcements THEN refused("delete", q, 404)
           ELSE IF ~mayModify(auth.user, announcements[q.id]) THEN refused("delete", q, 403)
           ELSE /\ announcements' = deleted(q.id)
                /\ clock' = clock
                /\ lastOp' = [NoOp EXCEPT !.kind = "delete", !.req = q, !.status = 200,
                                          !.success = TRUE,
                                          !.before = announcements,
                                          !.after = deleted(q.id)]
        /\ UNCHANGED <<turns, chatMessages, inbox>>

\* req.user in a handler of GET /api/announcements/:id: the route mounts
\* validateIdParam and the controller only, so that no middleware reads the
\* Authorization header and req.user is undefined for every request
userOfPublicRoute(token) == ""

\* announcement.incrementViewCount()
incrementViewCount(announcement) == [announcement EXCEPT !.viewCount = @ + 1]

\* GET /api/announcements/:id: validateIdParam, then getAnnouncementById (the
\* result of validateIdParam is not read by the controller)
getAnnouncementById(q) ==
    LET user == userOfPublicRoute(q.token)
        isAdmin == user # "" /\ users[user].role = "admin"
        viewed == incrementViewCount(announcements[q.id])
    IN  /\ IF ~isMongoId(q.id) THEN refused("get", q, 500)
           ELSE IF q.id \notin DOMAIN announcements THEN refused("get", q, 404)
           ELSE IF ~announcements[q.id].isPublished /\ ~isAdmin THEN refused("get", q, 404)
           ELSE /\ announcements' = stored(q.id, viewed)
                /\ clock' = clock
                /\ lastOp' = [NoOp EXCEPT !.kind = "get", !.req = q, !.status = 200,
                                          !.success = TRUE, !.data = <<viewed>>,
                                          !.before = announcements,
                                          !.after = stored(q.id, viewed)]
        /\ UNCHANGED <<turns, chatMessages, inbox>>

\* ======================= frontend: ChatProvider =======================

\* 'Sorry, I encountered an error. Please try again.' and data.response stand as
\* themselves
errorMessage == [sender |-> "bot", content |-> "Sorry, I encountered an error. Please try again."]
botMessage == [sender |-> "bot", content |-> "data.response"]

\* the provider without call i of its calls in flight
withoutCall(i) ==
    [j \in 1..(Len(chatProvider.calls) - 1) |->
        IF j < i THEN chatProvider.calls[j] ELSE chatProvider.calls[j + 1]]

\* sendMessage(content) up to its await of fetch: nothing happens for blank
\* content or without a token; otherwise the user's message is appended and
\* isLoading is set
sendMessage(content, token) ==
    /\ call' = [fn |-> "sendMessage", content |-> content, token |-> token]
    /\ chatProvider' =
        IF Len(trim(content)) = 0 \/ ~token
        THEN chatProvider
        ELSE [chatProvider EXCEPT
                !.messages = Append(@, [sender |-> "user", content |-> content]),
                !.isLoading = TRUE,
                !.calls = Append(@, [id |-> chatProvider.sent + 1, pc |-> "fetch"]),
                !.sent = @ + 1]
    /\ UNCHANGED <<turns, chatMessages, clock, lastOp, inbox, returned, collegeDocuments, announcements>>

\* the rest of sendMessage for call i once its fetch has settled: with an ok
\* response it goes on to await response.json(); a rejected fetch or a response
\* that is not ok appends the error message (catch) and clears isLoading (finally)
fetchSettles(i, ok) ==
    /\ chatProvider.calls[i].pc = "fetch"
    /\ chatProvider' =
        IF ok
        THEN [chatProvider EXCEPT !.calls[i].pc = "json"]
        ELSE [chatProvider EXCEPT
                !.messages = Append(@, errorMessage),
                !.isLoading = FALSE,
                !.calls = withoutCall(i)]
    /\ UNCHANGED <<turns, chatMessages, clock, lastOp, inbox, call, returned, collegeDocuments, announcements>>

\* the rest of sendMessage for call i once response.json() has settled: the bot's
\* message is appended, or the error message when the body does not parse, and
\* isLoading is cleared (finally)
jsonSettles(i, ok) ==
    /\ chatProvider.calls[i].pc = "json"
    /\ chatProvider' =
        [chatProvider EXCEPT
            !.messages = Append(@, IF ok THEN botMessage ELSE errorMessage),
            !.isLoading = FALSE,
            !.calls = withoutCall(i)]
    /\ UNCHANGED <<turns, chatMessages, clock, lastOp, inbox, call, returned, collegeDocuments, announcements>>

\* ======================= requests and specifications =======================

\* a message of exactly 1000 characters, one of 1001, and one of 1000 between blanks
m_max == [i \in 1..MaxMessageLength |-> 120]
m_long == [i \in 1..(MaxMessageLength + 1) |-> 120]
m_max_padded == <<32>> \o m_max \o <<32>>

\* session ids of 50 and of 51 characters
sid_50 == [i \in 1..MaxSessionIdLength |-> 115]
sid_51 == [i \in 1..(MaxSessionIdLength + 1) |-> 115]

\* messages short enough for every request field to be varied around them
ShortMessages ==
    {Undefined, m_empty, m_blank, m_hello, m_Hello_padded, m_hi, m_history, m_namaste,
     m_library, m_students, m_a_library, m_gibberish, m_hindi, m_hi_hindi}

\* messages at the length limit
LongMessages == {m_max, m_long, m_max_padded}

LanguageInputs == {"undefined", "en", "hi", "raj", "fr", ""}

SessionInputs == {Undefined, sid_empty, sid_short, sid_S1, sid_50, sid_51}

Tokens == {NoToken, MalformedToken, ExpiredToken, TokenOf("u1"), TokenOf("u4"), TokenOf("u9")}

\* the chat requests a single turn is checked on: every message in every language
\* field, a greeting and a query with every session id and token, and the messages
\* at the length limit
AllChatRequests ==
    [message : ShortMessages, language : LanguageInputs,
     sessionId : {Undefined, sid_S1}, token : {NoToken, TokenOf("u1")}]
    \cup [message : {m_hello, m_library}, language : {"undefined", "en"},
          sessionId : SessionInputs, token : Tokens]
    \cup [message : LongMessages, language : {"en", "fr"},
          sessionId : {Undefined, sid_S1, sid_51}, token : {NoToken, TokenOf("u1")}]

\* the chat requests of concurrent turns: a greeting and two queries, from one user
\* in one session and from another user in another
ChatRequests ==
    { [message |-> ml[1], language |-> ml[2], sessionId |-> su[1], token |-> TokenOf(su[2])] :
        ml \in {<<m_hello, "en">>, <<m_library, "en">>, <<m_hindi, "hi">>},
        su \in {<<sid_S1, "u1">>, <<sid_S2, "u2">>} }

Faults == {"none", "searchError", "ragThrow"}

MaxTurns == 2

Init ==
    /\ turns = <<>>
    /\ chatMessages = <<>>
    /\ clock = 0
    /\ lastOp = NoOp
    /\ inbox = <<>>
    /\ call = NoCall
    /\ returned = <<>>
    /\ collegeDocuments = collegeDocuments0
    /\ announcements = << >>
    /\ chatProvider = ChatProvider0

\* a chat request arrives while other turns are suspended; the requests name their
\* language and session, so that neither franc nor the random suffix is consulted
ReceiveRequest ==
    \E r \in ChatRequests :
        /\ Len(turns) < MaxTurns
        /\ processChatMessage(r, "und", rnd_a, "none")
        /\ UNCHANGED <<call, returned, collegeDocuments, announcements, chatProvider>>

GenerationSettles ==
    \E t \in DOMAIN turns, hf \in HfOutcomes, escaped \in BOOLEAN, rnd \in RandomSuffixes :
        /\ (escaped => hf.kind = "apiError")
        /\ textGenerationReturns(t, hf, escaped, rnd)
        /\ UNCHANGED <<call, returned, collegeDocuments, announcements, chatProvider>>

\* the generative call of a suspended turn answers or is rejected
GenerationReturns ==
    \E t \in DOMAIN turns :
        \E hf \in {h \in HfOutcomes : Truthy(h.text) \/ h.kind = "apiError"} :
            /\ textGenerationReturns(t, hf, FALSE, rnd_a)
            /\ UNCHANGED <<call, returned, collegeDocuments, announcements, chatProvider>>

SaveSettles ==
    \E t \in DOMAIN turns, saved \in BOOLEAN :
        saveReturns(t, saved) /\ UNCHANGED <<call, returned, collegeDocuments, announcements, chatProvider>>

Next == ReceiveRequest \/ GenerationReturns \/ SaveSettles

\* concurrent chat turns
Spec == Init /\ [][Next]_vars

InitTurn ==
    /\ turns = <<>>
    /\ chatMessages = <<>>
    /\ clock = 0
    /\ lastOp = NoOp
    /\ inbox \in {<<r>> : r \in AllChatRequests}
    /\ call = NoCall
    /\ returned = <<>>
    /\ collegeDocuments = collegeDocuments0
    /\ announcements = << >>
    /\ chatProvider = ChatProvider0

ReceiveInbox ==
    \E franc \in FrancOutcomes, rnd \in RandomSuffixes, fault \in Faults :
        /\ inbox # <<>>
        /\ processChatMessage(inbox[1], franc, rnd, fault)
        /\ UNCHANGED <<call, returned, collegeDocuments, announcements, chatProvider>>

NextTurn == ReceiveInbox \/ GenerationSettles \/ SaveSettles

\* one chat turn, on every request of AllChatRequests
SpecTurn == InitTurn /\ [][NextTurn]_vars

\* ---------------- chat turns followed by history requests ----------------

\* greetings of two users and of an anonymous caller, in two sessions
HistoryChatRequests ==
    [message : {m_hello}, language : {"en"}, sessionId : {sid_S1, sid_S2},
     token : {NoToken, TokenOf("u1"), TokenOf("u2")}]

\* GET /history requests: req.query.sessionId absent, empty, or a session's id; the
\* first page of the default size, or the second page of one exchange
HistoryRequests ==
    { [token |-> tk, sessionId |-> s, page |-> pl[1], limit |-> pl[2]] :
        tk \in {NoToken, MalformedToken, TokenOf("u1"), TokenOf("u2"), TokenOf("u4"),
                TokenOf("u9")},
        s \in {Undefined, sid_empty, sid_S1},
        pl \in {<<<<>>, <<>>>>, <<<<2>>, <<1>>>>} }

\* DELETE /history requests: req.body.sessionId absent, empty, or a session's id
ClearRequests ==
    [token : {NoToken, TokenOf("u1"), TokenOf("u2")},
     sessionId : {Undefined, sid_empty, sid_S1}, page : {<<>>}, limit : {<<>>}]

MaxHistoryTurns == 2

ReceiveGreeting ==
    \E r \in HistoryChatRequests :
        /\ Len(turns) < MaxHistoryTurns
        /\ processChatMessage(r, "und", rnd_a, "none")
        /\ UNCHANGED <<call, returned, collegeDocuments, announcements, chatProvider>>

HistoryRequest ==
    \E q \in HistoryRequests : getChatHistory(q) /\ UNCHANGED <<call, returned, collegeDocuments, announcements, chatProvider>>

ClearRequest ==
    \E q \in ClearRequests : clearChatHistory(q) /\ UNCHANGED <<call, returned, collegeDocuments, announcements, chatProvider>>

NextHistory == ReceiveGreeting \/ SaveSettles \/ HistoryRequest \/ ClearRequest

\* chat turns, history reads and history deletions in any order
SpecHistory == Init /\ [][NextHistory]_vars

\* ---------------- chat turns followed by paged history requests ----------------

\* GET /history requests of user u1: pages 1 to 3 or none given, one or two
\* exchanges a page or the default size, of all sessions; of one session, pages
\* 1 and 2
PageRequests ==
    [token : {TokenOf("u1")}, sessionId : {Undefined, sid_S1},
     page : {<<>>, <<1>>, <<2>>, <<3>>}, limit : {<<>>, <<1>>, <<2>>}]
    \ [token : {TokenOf("u1")}, sessionId : {sid_S1},
        page : {<<>>, <<3>>}, limit : {<<>>, <<1>>, <<2>>}]

PageRequest ==
    \E q \in PageRequests : getChatHistory(q) /\ UNCHANGED <<call, returned, collegeDocuments, announcements, chatProvider>>

\* greetings of user u1 in two sessions and of user u2
ReceivePagedGreeting ==
    \E su \in {<<sid_S1, "u1">>, <<sid_S2, "u1">>, <<sid_S1, "u2">>} :
        /\ Len(turns) < MaxHistoryTurns
        /\ processChatMessage([message |-> m_hello, language |-> "en", sessionId |-> su[1],
                               token |-> TokenOf(su[2])], "und", rnd_a, "none")
        /\ UNCHANGED <<call, returned, collegeDocuments, announcements, chatProvider>>

NextPages == ReceivePagedGreeting \/ SaveSettles \/ PageRequest

\* chat turns and paged history reads in any order
SpecPages == Init /\ [][NextPages]_vars

\* ---------------- chat turns followed by analytics requests ----------------

\* GET /analytics requests: without a token, with a token that does not verify,
\* and with the tokens of a student, a teacher, an admin, a deactivated and an
\* unknown user; the admin's also with a date range
AnalyticsRequests ==
    [token : {NoToken, MalformedToken, ExpiredToken, TokenOf("u1"), TokenOf("u2"),
              TokenOf("u3"), TokenOf("u4"), TokenOf("u9")},
     startDate : {<<>>}, endDate : {<<>>}]
    \cup [token : {TokenOf("u3")}, startDate : {<<>>, <<2>>}, endDate : {<<>>, <<1>>}]

\* an aggregate fails only where one is made: in an admin's request
AnalyticsRequest ==
    \E q \in AnalyticsRequests, failed \in BOOLEAN :
        /\ failed => q.token = TokenOf("u3")
        /\ getChatAnalytics(q, failed)
        /\ UNCHANGED <<call, returned, collegeDocuments, announcements, chatProvider>>

NextAnalytics == ReceivePagedGreeting \/ SaveSettles \/ AnalyticsRequest

\* chat turns and analytics reads in any order
SpecAnalytics == Init /\ [][NextAnalytics]_vars

\* ---------------- the knowledge base and its search ----------------

\* addDocument(document): the id is doc-<Date.now()>-<random suffix>
addDocument(document, rnd) ==
    LET id == str_doc_ \o digits(clock) \o <<45>> \o rnd
        newDoc == [id |-> id, content |-> document.content, metadata |-> document.metadata]
    IN  /\ collegeDocuments' = Append(collegeDocuments, newDoc)
        /\ call' = [fn |-> "addDocument", document |-> document]
        /\ returned' = <<id>>
        /\ UNCHANGED <<turns, chatMessages, clock, lastOp, inbox, announcements, chatProvider>>

\* a call of searchDocuments, as processRAGQuery makes it with its query and
\* the language it was given
search(query, language, failed) ==
    /\ call' = [fn |-> "searchDocuments", query |-> query, language |-> language,
                failed |-> failed]
    /\ returned' = <<searchDocuments(query, language, failed)>>
    /\ UNCHANGED <<turns, chatMessages, clock, lastOp, inbox, collegeDocuments, announcements, chatProvider>>

\* documents handed to addDocument: two English ones, of content "Library hours"
\* and "students zzz", the second filed under the category "constructor", and a
\* Rajasthani one under a category of its own
NewDocuments ==
    { [content |-> <<76, 105, 98, 114, 97, 114, 121, 32, 104, 111, 117, 114, 115>>,
       metadata |-> [source |-> "notice", language |-> "en", category |-> "facilities"]],
      [content |-> <<115, 116, 117, 100, 101, 110, 116, 115, 32, 122, 122, 122>>,
       metadata |-> [source |-> "notice", language |-> "en", category |-> "constructor"]],
      [content |-> content_library_raj,
       metadata |-> [source |-> "notice", language |-> "raj", category |-> "general"]] }

\* " zzz ": a query between blanks
q_padded == <<32, 122, 122, 122, 32>>

\* the queries: chat messages, the empty string, " zzz ", "library  LIBRARY"
\* and "the"
SearchQueries ==
    {m_library, m_students, m_a_library, m_gibberish, m_hindi, <<>>, q_padded,
     <<108, 105, 98, 114, 97, 114, 121, 32, 32, 76, 73, 66, 82, 65, 82, 89>>,
     <<116, 104, 101>>}

\* the languages searchDocuments is called with: those of SupportedLanguage, and
\* a value outside it, which the type does not exclude at run time
SearchLanguages == {"en", "hi", "raj", "fr"}

MaxAdded == 2

AddDocument ==
    \E document \in NewDocuments :
        /\ Len(collegeDocuments) < Len(collegeDocuments0) + MaxAdded
        /\ addDocument(document, rnd_a)

SearchDocuments ==
    \E query \in SearchQueries, language \in SearchLanguages, failed \in BOOLEAN :
        search(query, language, failed)

\* a call of getDocumentStats
GetDocumentStats ==
    /\ call' = [fn |-> "getDocumentStats"]
    /\ returned' = <<getDocumentStats>>
    /\ UNCHANGED <<turns, chatMessages, clock, lastOp, inbox, collegeDocuments, announcements, chatProvider>>

NextSearch == AddDocument \/ SearchDocuments \/ GetDocumentStats

\* searches of a knowledge base that grows
SpecSearch == Init /\ [][NextSearch]_vars

\* ---------------- direct calls of processRAGQuery ----------------

\* processRAGQuery(query, userLanguage).  franc: what franc answers; failed: an
\* exception inside searchDocuments; hf: what the generative call comes to;
\* escaped: an exception reaches the catch block of processRAGQuery
processRAGQuery(query, userLanguage, franc, failed, hf, escaped) ==
    LET detectedLanguage == IF userLanguage \notin {"undefined", ""} THEN userLanguage
                            ELSE detectLanguage(query, franc).language
        relevantDocs == searchDocuments(query, detectedLanguage, failed)
        context == [i \in DOMAIN relevantDocs |-> relevantDocs[i].content]
        answer == generateContextualResponse(query, context, detectedLanguage, hf)
    IN  IF escaped THEN ragFailure(userLanguage)
        ELSE IF Len(relevantDocs) = 0 THEN ragNoContext(detectedLanguage)
        ELSE ragAnswer(answer, relevantDocs, detectedLanguage)

\* the direct calls: userLanguage is absent, a member of SupportedLanguage, or a
\* value outside it, which the type does not exclude at run time; franc is
\* consulted only when userLanguage is absent, and an exception reaches the catch
\* block instead of the other faults
RagCalls ==
    { c \in [fn : {"processRAGQuery"},
             query : {m_library, m_students, m_gibberish, m_hindi, q_padded},
             userLanguage : {"undefined", "en", "hi", "raj", "fr"},
             franc : {"eng", "und"}, failed : BOOLEAN, hf : HfOutcomes, escaped : BOOLEAN] :
        /\ (c.userLanguage # "undefined" => c.franc = "und")
        /\ (c.escaped => ~c.failed /\ c.hf.kind = "apiError") }

InitRag ==
    /\ turns = <<>>
    /\ chatMessages = <<>>
    /\ clock = 0
    /\ lastOp = NoOp
    /\ inbox = <<>>
    /\ call \in RagCalls
    /\ returned = <<>>
    /\ collegeDocuments = collegeDocuments0
    /\ announcements = << >>
    /\ chatProvider = ChatProvider0

ProcessRAGQuery ==
    /\ call.fn = "processRAGQuery"
    /\ returned = <<>>
    /\ returned' = <<processRAGQuery(call.query, call.userLanguage, call.franc, call.failed,
                                      call.hf, call.escaped)>>
    /\ UNCHANGED <<turns, chatMessages, clock, lastOp, inbox, call, collegeDocuments, announcements, chatProvider>>

\* direct calls of processRAGQuery on the shipped knowledge base
SpecRag == InitRag /\ [][ProcessRAGQuery]_vars

\* ---------------- direct calls of detectLanguage ----------------

\* the messages of n words of a language's keyword list, separated by a blank,
\* the words taken at non-decreasing positions of the list from first on
RECURSIVE keywordMessages(_, _, _)
keywordMessages(lang, n, first) ==
    LET keywords == keywordsOf(lang)
    IN  IF n = 1 THEN {keywords[i] : i \in first..Len(keywords)}
        ELSE UNION { {keywords[i] \o <<32>> \o m : m \in keywordMessages(lang, n - 1, i)} :
                        i \in first..Len(keywords) }

MaxKeywordWords == 2

\* "मैं 1234567": three Devanagari characters that are one Hindi keyword
t_main_digits == <<2350, 2376, 2306, 32, 49, 50, 51, 52, 53, 54, 55>>
\* "1234567890"
t_digits == <<49, 50, 51, 52, 53, 54, 55, 56, 57, 48>>
\* blank, tab, line feed, no-break space
t_whitespace == <<32, 9, 10, 160>>

\* the texts detectLanguage is called with: the keyword messages of each language,
\* the chat messages, the texts above, "why 1234567" (three Latin letters that
\* are one English keyword), forty letters x, "ok है" (an English keyword
\* and a Hindi one), and "ककककक zzzz" (five Devanagari characters and four
\* Latin letters, no keyword)
DetectTexts ==
    UNION {keywordMessages(lang, n, 1) : lang \in SupportedLanguage, n \in 1..MaxKeywordWords}
    \cup {m_empty, m_blank, t_whitespace, m_hello, m_Hello_padded, m_namaste, m_library,
          m_gibberish, m_hindi, m_hi_hindi, t_main_digits, t_digits,
          <<119, 104, 121, 32, 49, 50, 51, 52, 53, 54, 55>>,
          [i \in 1..40 |-> 120],
          <<111, 107, 32, 2361, 2376>>,
          <<2325, 2325, 2325, 2325, 2325, 32, 122, 122, 122, 122>>}

InitDetect ==
    /\ turns = <<>>
    /\ chatMessages = <<>>
    /\ clock = 0
    /\ lastOp = NoOp
    /\ inbox = <<>>
    /\ call \in [fn : {"detectLanguage"}, text : DetectTexts, franc : FrancOutcomes]
    /\ returned = <<>>
    /\ collegeDocuments = collegeDocuments0
    /\ announcements = << >>
    /\ chatProvider = ChatProvider0

DetectLanguage ==
    /\ call.fn = "detectLanguage"
    /\ returned = <<>>
    /\ returned' = <<detectLanguage(call.text, call.franc)>>
    /\ UNCHANGED <<turns, chatMessages, clock, lastOp, inbox, call, collegeDocuments, announcements, chatProvider>>

\* direct calls of detectLanguage, for every answer of franc
SpecDetect == InitDetect /\ [][DetectLanguage]_vars

\* ---------------- announcements ----------------

MaxAnnouncements == 1
MaxViews == 2

\* the callers: nobody, a student, a teacher, an admin, a deactivated student
AnnouncementTokens == {NoToken, TokenOf("u1"), TokenOf("u2"), TokenOf("u3"), TokenOf("u4")}

\* the ids asked for: one that is no ObjectId, those of the announcements
\* created, and one more that was never given out
AnnouncementIds == 0..(MaxAnnouncements + 1)

\* announcements titled "Exams", " Hi   " (too short once trimmed) or not at all
CreateRequests ==
    [token : {TokenOf("u1"), TokenOf("u2"), TokenOf("u3")}, id : {0},
     body : [title : {<<>>, << <<69, 120, 97, 109, 115>> >>, << <<32, 72, 105, 32, 32, 32>> >>},
             isPublished : {<<>>, <<TRUE>>}]]

\* updates of the title alone, to "Results" and to " Hi   ", and of isPublished
\* alone
UpdateRequests ==
    [token : AnnouncementTokens, id : AnnouncementIds,
     body : {[title |-> << <<82, 101, 115, 117, 108, 116, 115>> >>, isPublished |-> <<>>],
             [title |-> << <<32, 72, 105, 32, 32, 32>> >>, isPublished |-> <<>>],
             [title |-> <<>>, isPublished |-> <<TRUE>>],
             [title |-> <<>>, isPublished |-> <<FALSE>>]}]

DeleteRequests == [token : AnnouncementTokens, id : AnnouncementIds]

GetRequests == [token : AnnouncementTokens, id : AnnouncementIds]

CreateAnnouncement ==
    \E q \in CreateRequests :
        /\ clock < MaxAnnouncements
        /\ createAnnouncement(q)
        /\ UNCHANGED <<call, returned, collegeDocuments, chatProvider>>

UpdateAnnouncement ==
    \E q \in UpdateRequests, saveFails \in BOOLEAN :
        /\ updateAnnouncement(q, saveFails)
        /\ UNCHANGED <<call, returned, collegeDocuments, chatProvider>>

DeleteAnnouncement ==
    \E q \in DeleteRequests :
        /\ deleteAnnouncement(q)
        /\ UNCHANGED <<call, returned, collegeDocuments, chatProvider>>

GetAnnouncementById ==
    \E q \in GetRequests :
        /\ \A i \in DOMAIN announcements : announcements[i].viewCount < MaxViews
        /\ getAnnouncementById(q)
        /\ UNCHANGED <<call, returned, collegeDocuments, chatProvider>>

NextAnnouncements == CreateAnnouncement \/ UpdateAnnouncement \/ DeleteAnnouncement

\* announcements created, updated and deleted in any order
SpecAnnouncements == Init /\ [][NextAnnouncements]_vars

NextViews == CreateAnnouncement \/ GetAnnouncementById

\* announcements created and fetched in any order
SpecViews == Init /\ [][NextViews]_vars

\* ---------------- the chat widget ----------------

MaxSends == 3

\* a consumer of the context calls sendMessage: with "hello", "library hours" or
\* a blank string, the user logged in or not
SendMessage ==
    \E content \in {m_hello, m_library, m_blank}, token \in BOOLEAN :
        /\ chatProvider.sent < MaxSends
        /\ sendMessage(content, token)

FetchSettles ==
    \E i \in DOMAIN chatProvider.calls, ok \in BOOLEAN : fetchSettles(i, ok)

JsonSettles ==
    \E i \in DOMAIN chatProvider.calls, ok \in BOOLEAN : jsonSettles(i, ok)

NextWidget == SendMessage \/ FetchSettles \/ JsonSettles

\* sendMessage calls that overlap, their responses arriving in any order
SpecWidget == Init /\ [][NextWidget]_vars

\* ======================= properties =======================

\* the positions of the collection that hold the exchange of turn t
recordsOf(t) == {i \in DOMAIN chatMessages : chatMessages[i].id = t}

\* turn t has been answered; answered with success: true
answered(t) == turns[t].res # <<>>
succeeded(t) == answered(t) /\ turns[t].res[1].success

\* turn t's request passed validation (it has not been answered 400)
passedValidation(t) == ~(answered(t) /\ turns[t].res[1].status = 400)

\* the language processRAGQuery and getGreeting are given for turn t
resolvedLanguage(t) ==
    IF LanguageGiven(turns[t].req.language) THEN turns[t].req.language
    ELSE turns[t].detectedLanguage

\* the canned strings, by language
greetingIn(language) ==
    CASE language = "hi" -> greeting_hi
      [] language = "raj" -> greeting_raj
      [] OTHER -> greeting_en

noContextIn(language) ==
    CASE language = "hi" -> msg_hi_noContext
      [] language = "raj" -> msg_raj_noContext
      [] OTHER -> msg_en_noContext

technicalIn(language) ==
    CASE language = "hi" -> msg_hi_technical
      [] language = "raj" -> msg_raj_technical
      [] OTHER -> msg_en_technical

templateIn(language) ==
    CASE language = "hi" -> prefix_hi
      [] language = "raj" -> prefix_raj
      [] OTHER -> prefix_en

\* min(0.3 + 0.2 n, 0.9), in hundredths
formulaConfidence(n) == IF 30 + 20 * n < 90 THEN 30 + 20 * n ELSE 90

\* ---------------- C1 ----------------

\* C1 (as amended): a chat turn on a validated request persists at most one
\* ChatExchange; a turn answered success: true has exactly one, inserted before
\* the response was sent; a finished turn with none has been answered 500; and
\* a turn not yet finished has none.
C1_AtMostOneRecordOneOnSuccess ==
    \A t \in DOMAIN turns :
        LET n == Cardinality(recordsOf(t))
        IN  /\ n <= 1
            /\ (succeeded(t) => n = 1)
            /\ (n = 1 => succeeded(t))
            /\ (passedValidation(t) /\ turns[t].pc = "done" /\ n = 0 =>
                    turns[t].res[1].status = 500)

\* C1, reached: a retrieval-path turn answered with success and one record, the
\* session id of which was generated
C1_RetrievalTurnSavedOnce ==
    \E t \in DOMAIN turns :
        /\ succeeded(t)
        /\ ~turns[t].greeting
        /\ Len(turns[t].relevantDocs) > 0
        /\ ~Truthy(turns[t].req.sessionId)
        /\ Cardinality(recordsOf(t)) = 1

\* C1 as stated: every finished turn on a validated request has exactly one
\* persisted ChatExchange
C1_ExactlyOneRecordPerTurn ==
    \A t \in DOMAIN turns :
        (passedValidation(t) /\ turns[t].pc = "done") => Cardinality(recordsOf(t)) = 1

\* ---------------- C2 ----------------

\* C2 as stated: a clearChatHistory of user U with sessionId S removes exactly
\* the exchanges of U with session id S, and without a sessionId exactly the
\* exchanges of U; everything else is left as it was, in its order, and
\* deletedCount is the number of exchanges removed
C2_ClearRemovesExactlyScope ==
    (lastOp.kind = "clear" /\ lastOp.success) =>
        LET U == lastOp.req.token.id
            S == lastOp.req.sessionId
            Kept(doc) == ~(doc.userId = U /\ (S # Undefined => doc.sessionId = S))
        IN  /\ lastOp.after = SelectSeq(lastOp.before, Kept)
            /\ lastOp.deletedCount = Len(lastOp.before) - Len(lastOp.after)

\* what holds of clearChatHistory: only exchanges of the caller are removed,
\* only those of session S when S is not empty, and deletedCount is their number
clearStaysWithinCaller ==
    (lastOp.kind = "clear" /\ lastOp.success) =>
        LET U == lastOp.req.token.id
            S == lastOp.req.sessionId
            Kept(doc) == ~(doc.userId = U /\ (Truthy(S) => doc.sessionId = S))
        IN  /\ lastOp.after = SelectSeq(lastOp.before, Kept)
            /\ lastOp.deletedCount = Len(lastOp.before) - Len(lastOp.after)

\* ---------------- C3 ----------------

C6_SaveFailureIsServerError ==
    \A t \in DOMAIN turns :
        /\ turns[t].saveCalls <= 1
        /\ ((turns[t].pc = "done" /\ turns[t].saveCalls = 1 /\ recordsOf(t) = {}) =>
                turns[t].res = <<[status |-> 500, success |-> FALSE,
                                  message |-> "Failed to process chat message"]>>)
        /\ (succeeded(t) => recordsOf(t) # {})

\* C6, reached: a retrieval-path turn whose save failed, answered 500
C6_RetrievalSaveFailed ==
    \E t \in DOMAIN turns :
        /\ turns[t].pc = "done"
        /\ ~turns[t].greeting
        /\ turns[t].composeCalls = 1
        /\ turns[t].saveCalls = 1
        /\ recordsOf(t) = {}
        /\ turns[t].res[1].status = 500

\* ---------------- C7 ----------------

\* the requests C7 names: the trimmed message is empty or longer than 1000
\* characters, the language is given and not one of en, hi, raj, or the
\* sessionId is given and not 10..50 characters long
malformed(r) ==
    LET message == IF r.message = Undefined THEN <<>> ELSE trim(r.message)
    IN  \/ Len(message) = 0
        \/ Len(message) > 1000
        \/ (r.language # "undefined" /\ r.language \notin {"en", "hi", "raj"})
        \/ (r.sessionId # Undefined /\ (Len(r.sessionId) < 10 \/ Len(r.sessionId) > 50))

\* C7: a turn on such a request is answered 400 by the error handler, and
\* neither detectLanguage, searchDocuments, generateContextualResponse nor
\* save is called in it: no ChatExchange is built or persisted.
C7_MalformedRequestRejected ==
    \A t \in DOMAIN turns :
        malformed(turns[t].req) =>
            /\ turns[t].pc = "done"
            /\ turns[t].res = <<[status |-> 400, success |-> FALSE,
                                 message |-> "Validation failed"]>>
            /\ turns[t].detectCalls = 0
            /\ turns[t].searchCalls = 0
            /\ turns[t].composeCalls = 0
            /\ turns[t].saveCalls = 0
            /\ turns[t].chatMessage = <<>>
            /\ recordsOf(t) = {}
            /\ chatMessages = <<>>

\* C7, reached: a message of 1001 characters, with a valid language and session
\* id, is answered 400
C7_TooLongMessageRejected ==
    \E t \in DOMAIN turns :
        /\ Len(turns[t].req.message) = 1001
        /\ turns[t].req.language = "en"
        /\ turns[t].req.sessionId = sid_S1
        /\ turns[t].res # <<>>
        /\ turns[t].res[1].status = 400

\* ---------------- C8 ----------------

\* C8: every persisted ChatExchange carries the user, the session id, the
\* trimmed message and the language of the request of the one turn that built
\* it, and the answer sent to that request; no turn has two exchanges.
C8_ExchangeOfOneRequest ==
    \A i \in DOMAIN chatMessages :
        LET doc == chatMessages[i]
            t == doc.id
        IN  /\ t \in DOMAIN turns
            /\ recordsOf(t) = {i}
            /\ doc.userId = turns[t].req.token.id
            /\ doc.sessionId = turns[t].req.sessionId
            /\ doc.message = trim(turns[t].req.message)
            /\ doc.language = turns[t].req.language
            /\ succeeded(t)
            /\ doc.response = turns[t].res[1].response
            /\ turns[t].res[1].sessionId = turns[t].req.sessionId
            /\ (turns[t].greeting => doc.response = greetingIn(turns[t].req.language))
            /\ (~turns[t].greeting =>
                    doc.context \in {<<>>, [k \in DOMAIN turns[t].relevantDocs |->
                                               turns[t].relevantDocs[k].content]})

\* C8, reached: two turns of different users in different sessions, the first
\* suspended in the generative call while the second arrived, both persisted,
\* the second one's exchange first
C8_InterleavedTurnsPersisted ==
    \E i, j \in DOMAIN chatMessages :
        /\ i < j
        /\ chatMessages[i].id > chatMessages[j].id
        /\ chatMessages[i].userId # chatMessages[j].userId
        /\ chatMessages[i].sessionId # chatMessages[j].sessionId
        /\ chatMessages[j].createdAt > chatMessages[i].createdAt
        /\ turns[chatMessages[j].id].composeCalls = 1

\* ---------------- C9 ----------------

\* C9 as stated: of two persisted exchanges of one session, the one whose
\* request arrived first was inserted first and has the earlier createdAt
C9_SessionArrivalOrder ==
    \A i, j \in DOMAIN chatMessages :
        (/\ chatMessages[i].sessionId = chatMessages[j].sessionId
         /\ chatMessages[i].id < chatMessages[j].id) =>
            /\ i < j
            /\ chatMessages[i].createdAt < chatMessages[j].createdAt

\* ---------------- C10 ----------------

\* C10 as stated: getChatHistory returns only exchanges of the authenticated
\* caller, and only those of the session when a sessionId is given; a request
\* without a valid token of an active user is answered 401 with no data
C10_HistoryOfCallerAndSession ==
    lastOp.kind = "history" =>
        LET q == lastOp.req
        IN  IF q.token.kind = "valid" /\ q.token.id \in UserIds /\ users[q.token.id].isActive
            THEN \A i \in DOMAIN lastOp.data :
                    /\ lastOp.data[i].userId = q.token.id
                    /\ (q.sessionId # Undefined => lastOp.data[i].sessionId = q.sessionId)
            ELSE lastOp.status = 401 /\ ~lastOp.success /\ lastOp.data = <<>>

\* what holds of getChatHistory: the data are exchanges of the caller, and a
\* request without a valid token of an active user is answered 401
historyStaysWithinCaller ==
    lastOp.kind = "history" =>
        LET q == lastOp.req
        IN  IF q.token.kind = "valid" /\ q.token.id \in UserIds /\ users[q.token.id].isActive
            THEN \A i \in DOMAIN lastOp.data :
                    /\ lastOp.data[i].userId = q.token.id
                    /\ (Truthy(q.sessionId) => lastOp.data[i].sessionId = q.sessionId)
            ELSE lastOp.status = 401 /\ ~lastOp.success /\ lastOp.data = <<>>


\* ---------------- C11 ----------------

\* the exchanges a successful history request selects, as positions of the
\* collection it read: those of the caller, of the session when one is named
selected ==
    {j \in DOMAIN lastOp.before :
        /\ lastOp.before[j].userId = lastOp.req.token.id
        /\ (Truthy(lastOp.req.sessionId) =>
                lastOp.before[j].sessionId = lastOp.req.sessionId)}

\* how many of the selected exchanges were created after doc, and before it
newerThan(doc) ==
    Cardinality({j \in selected : lastOp.before[j].createdAt > doc.createdAt})
olderThan(doc) ==
    Cardinality({j \in selected : lastOp.before[j].createdAt < doc.createdAt})

\* the page and the page size a history request asks for
pageOf(q) == IF q.page = <<>> THEN 1 ELSE q.page[1]
limitOf(q) == IF q.limit = <<>> THEN 50 ELSE q.limit[1]

\* the number of selected exchanges on pages 1..p of size l
uptoPage(p, l) == IF p * l < Cardinality(selected) THEN p * l ELSE Cardinality(selected)

\* C11 (as amended): the items of every returned page are in ascending order
\* of createdAt, whatever the order in which they were persisted, and the pages
\* are cut from the newest exchange backwards: page p of size l holds the
\* selected exchanges that have between (p - 1) l and p l - 1 newer ones, so
\* page 1 holds the l most recent exchanges and later pages hold older ones.
C11_PagesRunBackwardsEachAscending ==
    (lastOp.kind = "history" /\ lastOp.success) =>
        LET p == pageOf(lastOp.req)
            l == limitOf(lastOp.req)
            last == uptoPage(p, l)
            first == uptoPage(p - 1, l)
        IN  /\ Len(lastOp.data) = last - first
            /\ \A i \in DOMAIN lastOp.data :
                    /\ \E j \in selected : lastOp.before[j] = lastOp.data[i]
                    /\ newerThan(lastOp.data[i]) = last - i
            /\ \A i, k \in DOMAIN lastOp.data :
                    i < k => lastOp.data[i].createdAt < lastOp.data[k].createdAt

\* C11, reached: of two exchanges of the caller, persisted in the reverse of
\* their creation order, page 1 of size 1 holds the newer one
C11_FirstPageHoldsNewest ==
    /\ lastOp.kind = "history" /\ lastOp.success
    /\ lastOp.req.page = <<1>> /\ lastOp.req.limit = <<1>>
    /\ Cardinality(selected) = 2
    /\ Len(lastOp.before) = 2
    /\ lastOp.before[1].createdAt > lastOp.before[2].createdAt
    /\ lastOp.data = <<lastOp.before[1]>>

\* C11 as stated: reading the pages in order yields the exchanges in ascending
\* order of createdAt: page p of size l holds the selected exchanges that have
\* between (p - 1) l and p l - 1 older ones
C11_PagesReadInOrderAscend ==
    (lastOp.kind = "history" /\ lastOp.success) =>
        LET p == pageOf(lastOp.req)
            l == limitOf(lastOp.req)
        IN  /\ Len(lastOp.data) = uptoPage(p, l) - uptoPage(p - 1, l)
            /\ \A i \in DOMAIN lastOp.data :
                    olderThan(lastOp.data[i]) = uptoPage(p - 1, l) + i - 1


\* ---------------- C12 ----------------

\* the positions of the knowledge base that hold a chunk of a language
chunksOf(language) ==
    {i \in DOMAIN collegeDocuments : collegeDocuments[i].metadata.language = language}

\* C12: a call of searchDocuments(q, L) returns at most 3 chunks of the
\* knowledge base, all of language L, or, when the knowledge base holds no
\* chunk of language L, all of language en.
C12_AtMostThreeOfOneLanguage ==
    call.fn = "searchDocuments" =>
        LET result == returned[1]
            expected == IF chunksOf(call.language) # {} THEN call.language ELSE "en"
        IN  /\ Len(result) <= 3
            /\ \A i \in DOMAIN result :
                    /\ result[i].metadata.language = expected
                    /\ \E j \in DOMAIN collegeDocuments : collegeDocuments[j] = result[i]

\* C12, reached: a search in a language of which the knowledge base has no
\* chunk returns three English chunks, although a fourth English chunk and a
\* Rajasthani one contain a word of the query
C12_FallbackCutToThree ==
    /\ call.fn = "searchDocuments"
    /\ call.language = "fr"
    /\ chunksOf("fr") = {}
    /\ Len(returned[1]) = 3
    /\ \A i \in 1..3 : returned[1][i].metadata.language = "en"
    /\ LET words == splitWhitespace(toLowerCase(call.query))
       IN  /\ Cardinality({j \in chunksOf("en") :
                    documentScore(collegeDocuments[j], words) > 0}) > 3
           /\ \E j \in chunksOf("raj") : documentScore(collegeDocuments[j], words) > 0

\* ---------------- C13 ----------------

\* the whitespace-delimited tokens of a query, lowercased, repeated ones kept
tokensOf(query) ==
    LET NonEmpty(w) == Len(w) > 0
    IN  SelectSeq(splitWhitespace(toLowerCase(query)), NonEmpty)

\* the token-overlap score of a chunk: the tokens of the query that occur in
\* its lowercased content, each counted as often as the query repeats it
overlap(doc, query) ==
    Cardinality({i \in DOMAIN tokensOf(query) :
                    includes(toLowerCase(doc.content), tokensOf(query)[i])})

\* C13 as stated: searchDocuments returns chunks in non-increasing order of
\* token-overlap score, a chunk that contains none of the query's tokens never
\* appears, and chunks of equal score keep their order in the knowledge base
C13_RankedByTokenOverlap ==
    (call.fn = "searchDocuments" /\ ~call.failed) =>
        LET result == returned[1]
        IN  /\ \A i \in DOMAIN result : overlap(result[i], call.query) > 0
            /\ \A i, k \in DOMAIN result :
                    i < k =>
                        /\ overlap(result[i], call.query) >= overlap(result[k], call.query)
                        /\ (overlap(result[i], call.query) = overlap(result[k], call.query) =>
                                \E a, b \in DOMAIN collegeDocuments :
                                    /\ a < b
                                    /\ collegeDocuments[a] = result[i]
                                    /\ collegeDocuments[b] = result[k])

\* C13, reached: the query " zzz " is answered with chunks that contain no zzz
C13_PaddedQueryReturnsUnrelated ==
    /\ call.fn = "searchDocuments" /\ ~call.failed
    /\ call.query = q_padded
    /\ \E i \in DOMAIN returned[1] : overlap(returned[1][i], call.query) = 0

\* what holds of the ranking: it is by the score of the source, in which the
\* empty strings that split(/\s+/) yields for a query that is empty or begins or
\* ends with whitespace count as tokens that every chunk contains
rankedByWordsOfSplit ==
    (call.fn = "searchDocuments" /\ ~call.failed) =>
        LET result == returned[1]
            words == splitWhitespace(toLowerCase(call.query))
            score(doc) == documentScore(doc, words)
        IN  /\ \A i \in DOMAIN result : score(result[i]) > 0
            /\ \A i, k \in DOMAIN result :
                    i < k =>
                        /\ score(result[i]) >= score(result[k])
                        /\ (score(result[i]) = score(result[k]) =>
                                \E a, b \in DOMAIN collegeDocuments :
                                    /\ a < b
                                    /\ collegeDocuments[a] = result[i]
                                    /\ collegeDocuments[b] = result[k])
            /\ (tokensOf(call.query) = words =>
                    \A i \in DOMAIN result : overlap(result[i], call.query) = score(result[i]))


\* ---------------- C14 ----------------

\* C14 as stated: a processRAGQuery that finds no context returns the
\* 'insufficient information' message of the resolved language, whatever the
\* generative call would have answered, and the English 'insufficient
\* information' message when the language has no entry
C14_NoContextMessageElseEnglish ==
    (/\ call.fn = "processRAGQuery"
     /\ returned # <<>>
     /\ ~call.escaped
     /\ returned[1].context = <<>>) =>
        returned[1].answer = noContextIn(returned[1].language)

\* C14, reached: for a language without an entry the answer with an empty
\* context is the English 'could not understand your question' message
C14_AbsentLanguageGetsGeneralMessage ==
    /\ call.fn = "processRAGQuery"
    /\ returned # <<>>
    /\ ~call.escaped
    /\ call.userLanguage = "fr"
    /\ returned[1].context = <<>>
    /\ returned[1].language = "fr"
    /\ returned[1].answer = msg_en_general
    /\ msg_en_general # msg_en_noContext

\* what holds of an empty context: for the languages en, hi and raj the answer
\* is the 'insufficient information' message of the language, with confidence
\* 0.1 and no sources, whatever the generative call would have answered
noContextOfSupportedLanguage ==
    (/\ call.fn = "processRAGQuery"
     /\ returned # <<>>
     /\ ~call.escaped
     /\ returned[1].context = <<>>
     /\ returned[1].language \in {"en", "hi", "raj"}) =>
        /\ returned[1].answer = noContextIn(returned[1].language)
        /\ returned[1].confidence = 10
        /\ returned[1].sources = <<>>


\* ---------------- C15 ----------------

\* C15: on a turn whose generative call has settled without an exception
\* reaching processRAGQuery, generateContextualResponse has returned an answer:
\* the generated text when there is one; the prefix of the language followed by
\* the first snippet only when the call failed or gave empty text; the
\* technical-difficulty message of the language on any other exception.  The
\* exchange built, and persisted on success, carries all the snippets.
C15_ComposerAnswersFromFirstSnippet ==
    \A t \in DOMAIN turns :
        (turns[t].generated # <<>> /\ turns[t].fault # "ragThrow") =>
            LET turn == turns[t]
                hf == turn.generated[1]
                language == resolvedLanguage(t)
                snippets == [i \in DOMAIN turn.relevantDocs |-> turn.relevantDocs[i].content]
                answer == turn.ragResult[1].answer
            IN  /\ Len(snippets) >= 1
                /\ turn.pc \in {"save", "done"}
                /\ turn.ragResult # <<>>
                /\ (hf.kind = "text" /\ hf.text # <<>> => answer = hf.text)
                /\ ((hf.kind = "apiError" \/ (hf.kind = "text" /\ hf.text = <<>>)) =>
                        answer = templateIn(language) \o snippets[1])
                /\ (hf.kind = "internalError" => answer = technicalIn(language))
                /\ turn.chatMessage[1].response = answer
                /\ turn.chatMessage[1].context = snippets
                /\ \A i \in recordsOf(t) :
                        /\ chatMessages[i].response = answer
                        /\ chatMessages[i].context = snippets
                /\ (turn.pc = "done" /\ recordsOf(t) # {} =>
                        succeeded(t) /\ turn.res[1].response = answer)

\* C15, reached: the generative call gave empty text for a query with several
\* snippets; the answer sent is the prefix and the first snippet, and the
\* persisted exchange has all of them
C15_EmptyTextSeveralSnippets ==
    \E t \in DOMAIN turns :
        /\ turns[t].generated = <<[kind |-> "text", text |-> <<>>]>>
        /\ Len(turns[t].relevantDocs) >= 2
        /\ succeeded(t)
        /\ turns[t].res[1].response = prefix_en \o turns[t].relevantDocs[1].content
        /\ \E i \in recordsOf(t) : Len(chatMessages[i].context) >= 2


\* ---------------- C16 ----------------

\* the words of a text are all words of a language's keyword list
onlyKeywordsOf(text, lang) ==
    /\ Len(text) > 0
    /\ \A i \in DOMAIN splitWhitespace(text) :
            \E k \in DOMAIN keywordsOf(lang) : splitWhitespace(text)[i] = keywordsOf(lang)[k]

\* the keywords of a language that occur in a text
keywordsPresent(text, lang) ==
    {keywordsOf(lang)[k] : k \in {j \in DOMAIN keywordsOf(lang) :
                                    includes(toLowerCase(text), keywordsOf(lang)[j])}}

rawScore(text, lang, franc) ==
    (IF (lang = "en" /\ franc = "eng") \/ (lang = "hi" /\ franc = "hin") THEN 4 ELSE 0)
    + 3 * scriptMatches(text, lang)
    + 7 * keywordMatches(trim(toLowerCase(text)), lang)

\* min(rawScore / 10, 1) in hundredths, and the highest of the three
confidenceIn(text, lang, franc) ==
    IF rawScore(text, lang, franc) < 100 THEN rawScore(text, lang, franc) ELSE 100

topConfidence(text, franc) ==
    CHOOSE c \in {confidenceIn(text, lang, franc) : lang \in {"en", "hi", "raj"}} :
        \A lang \in {"en", "hi", "raj"} : confidenceIn(text, lang, franc) <= c

\* a call of detectLanguage on a text that is not blank, which franc answered
\* with a code, has returned
hintPathReturned ==
    /\ call.fn = "detectLanguage"
    /\ returned # <<>>
    /\ call.franc \in {"eng", "hin", "und"}
    /\ Len(trim(call.text)) > 0

\* C17 as stated: when franc answers, detectLanguage returns a top-scoring
\* language with its confidence min(rawScore / 10, 1) when that is at least
\* 0.2, and English with confidence 0.5 when it is below 0.2
C17_TopScoreOrEnglishBelowFloor ==
    hintPathReturned =>
        LET top == topConfidence(call.text, call.franc)
            result == returned[1]
        IN  IF top >= 20
            THEN /\ result.confidence = top
                 /\ confidenceIn(call.text, result.language, call.franc) = top
            ELSE result.language = "en" /\ result.confidence = 50

\* C17, reached: franc answers hin for a text of three Devanagari characters
\* that are one Hindi keyword; the Hindi score is 0.4 + 0.9 + 0.7, the result
\* is English with confidence 0.5
C17_ScoreOfTwoForcedToEnglish ==
    /\ hintPathReturned
    /\ call.text = t_main_digits
    /\ call.franc = "hin"
    /\ rawScore(call.text, "hi", call.franc) = 20
    /\ topConfidence(call.text, call.franc) = 20
    /\ returned[1].language = "en"
    /\ returned[1].confidence = 50

\* what holds when franc answers: above 0.2 the top-scoring language is
\* returned with its confidence, below 0.2 English with 0.5, and at 0.2 one
\* or the other; the confidence returned is between 0.2 and 1
hintPathApartFromTheFloorItself ==
    hintPathReturned =>
        LET top == topConfidence(call.text, call.franc)
            result == returned[1]
            OfTop == /\ result.confidence = top
                     /\ confidenceIn(call.text, result.language, call.franc) = top
            Forced == result.language = "en" /\ result.confidence = 50
        IN  /\ (top > 20 => OfTop)
            /\ (top < 20 => Forced)
            /\ (top = 20 => OfTop \/ Forced)
            /\ result.confidence >= 20
            /\ result.confidence <= 100


\* ---------------- C18 ----------------

\* C18: detectLanguage on a text that is empty or consists of whitespace only
\* returns English with confidence 0.5 and no alternatives; franc has no part
\* in it: the result is the same whatever franc would answer, and if it would
\* throw.
C18_BlankTextIsEnglish ==
    (/\ call.fn = "detectLanguage"
     /\ returned # <<>>
     /\ \A i \in DOMAIN call.text : call.text[i] \in WhiteSpace) =>
        returned[1] = [language |-> "en", confidence |-> 50, alternatives |-> <<>>]

\* C18, reached: a text of a blank, a tab, a line feed and a no-break space, on
\* which franc would throw
C18_WhitespaceWhileFrancWouldThrow ==
    /\ call.fn = "detectLanguage"
    /\ returned # <<>>
    /\ call.text = t_whitespace
    /\ call.franc = "throws"
    /\ returned[1].language = "en"
    /\ returned[1].confidence = 50

\* ---------------- C19 ----------------

\* C19: when franc throws on a text that is not blank, detectLanguage returns
\* all the same: the language is one with the highest script-and-keyword score
\* (no bonus), the last of en, hi, raj among equals, the confidence is
\* min(bestScore / 10, 1), whether or not it is below 0.2, and there are no
\* alternatives.
C19_ThrowingHintScoresWithoutFloor ==
    (/\ call.fn = "detectLanguage"
     /\ returned # <<>>
     /\ call.franc = "throws"
     /\ Len(trim(call.text)) > 0) =>
        LET best == topConfidence(call.text, "throws")
            result == returned[1]
            order == [en |-> 1, hi |-> 2, raj |-> 3]
        IN  /\ result.language \in {"en", "hi", "raj"}
            /\ result.confidence = best
            /\ confidenceIn(call.text, result.language, "throws") = best
            /\ \A lang \in {"en", "hi", "raj"} :
                    rawScore(call.text, lang, "throws") = rawScore(call.text, result.language, "throws")
                        => order[lang] <= order[result.language]
            /\ result.alternatives = <<>>

\* C19, reached: franc throws on a text of digits; the result is Rajasthani with
\* confidence 0
C19_DigitsGiveRajasthaniZero ==
    /\ call.fn = "detectLanguage"
    /\ returned # <<>>
    /\ call.franc = "throws"
    /\ call.text = t_digits
    /\ returned[1].language = "raj"
    /\ returned[1].confidence = 0


\* ---------------- C20 ----------------

\* the language of a turn: the one the request names, else the one detected
languageOf(t) ==
    IF turns[t].req.language \in {"en", "hi", "raj"} THEN turns[t].req.language
    ELSE turns[t].detectedLanguage

\* C20: on a turn that got past validation, detectLanguage is not called when
\* the request names a language and is called once on the trimmed message
\* otherwise, its language being the turn's; the greeting, the retrieved
\* snippets and the canned or template answer are those of the turn's language,
\* and that language is the one in the exchange built, in the exchange
\* persisted and in the response.
C20_OneLanguageThroughTheTurn ==
    \A t \in DOMAIN turns :
        passedValidation(t) =>
            LET turn == turns[t]
                supplied == turn.req.language \in {"en", "hi", "raj"}
                L == languageOf(t)
            IN  /\ (supplied => turn.detectCalls = 0)
                /\ (~supplied =>
                        /\ turn.detectCalls = 1
                        /\ \E franc \in FrancOutcomes :
                                detectLanguage(trim(turn.req.message), franc).language = L)
                /\ L \in {"en", "hi", "raj"}
                /\ \A i \in DOMAIN turn.relevantDocs :
                        turn.relevantDocs[i].metadata.language = L
                /\ (turn.ragResult # <<>> =>
                        /\ turn.ragResult[1].language = L
                        /\ \/ turn.ragResult[1].answer \in {noContextIn(L), technicalIn(L)}
                           \/ /\ turn.generated # <<>>
                              /\ turn.ragResult[1].answer \in
                                    {turn.generated[1].text,
                                     templateIn(L) \o turn.relevantDocs[1].content})
                /\ (turn.chatMessage # <<>> =>
                        /\ turn.chatMessage[1].language = L
                        /\ (turn.greeting => turn.chatMessage[1].response = greetingIn(L)))
                /\ \A i \in recordsOf(t) : chatMessages[i].language = L
                /\ (succeeded(t) => turn.res[1].language = L)

\* C20, reached: a request names Rajasthani for an English query that the
\* detector would call English whatever franc answers; the detector is not
\* called, the response and the persisted exchange are in Rajasthani
C20_SuppliedLanguageNotDetected ==
    \E t \in DOMAIN turns :
        /\ turns[t].req.language = "raj"
        /\ turns[t].req.message = m_library
        /\ \A franc \in FrancOutcomes :
                detectLanguage(m_library, franc).language = "en"
        /\ turns[t].detectCalls = 0
        /\ succeeded(t)
        /\ turns[t].res[1].language = "raj"
        /\ \E i \in recordsOf(t) : chatMessages[i].language = "raj"


\* ---------------- C21 ----------------

\* C21: every persisted exchange has one session id, which is not empty: the
\* one its request named, when it named one, and otherwise an id of the form
\* session_<time>_<random suffix> generated in the turn; the sessionId of a
\* turn's response is that of the exchange persisted for the turn.
C21_SessionIdSuppliedOrGenerated ==
    \A i \in DOMAIN chatMessages :
        LET doc == chatMessages[i]
            t == doc.id
        IN  /\ doc.sessionId # Undefined
            /\ Len(doc.sessionId) > 0
            /\ (turns[t].req.sessionId # Undefined => doc.sessionId = turns[t].req.sessionId)
            /\ (turns[t].req.sessionId = Undefined =>
                    \E now \in 1..clock, rnd \in {rnd_a, rnd_b} :
                        doc.sessionId = str_session_ \o digits(now) \o <<95>> \o rnd)
            /\ (succeeded(t) => turns[t].res[1].sessionId = doc.sessionId)

\* C21, reached: a request without a sessionId is answered with a generated
\* one, that of its persisted exchange
C21_GeneratedIdReturned ==
    \E t \in DOMAIN turns :
        /\ turns[t].req.sessionId = Undefined
        /\ succeeded(t)
        /\ SubSeq(turns[t].res[1].sessionId, 1, 8) = str_session_
        /\ \E i \in recordsOf(t) : chatMessages[i].sessionId = turns[t].res[1].sessionId


\* ---------------- C22 ----------------

\* a token that verifies and names an active user
ofActiveUser(token) ==
    /\ token.kind = "valid"
    /\ token.id \in UserIds
    /\ users[token.id].isActive

\* the principal of a request: the user of its token, else anonymous
principalOf(r) == IF ofActiveUser(r.token) THEN r.token.id ELSE "anonymous"

\* C22: no chat turn is answered 401 or 403; a turn runs as the user of its
\* token when the token verifies and names an active user, and otherwise (no
\* token, a token that does not verify, an unknown or deactivated user) as
\* anonymous, and its exchange is built and persisted under that principal.
C22_ChatNeverRejectedForAuthentication ==
    \A t \in DOMAIN turns :
        LET turn == turns[t]
        IN  /\ turn.userId = principalOf(turn.req)
            /\ (turn.res # <<>> => turn.res[1].status \in {200, 400, 500})
            /\ (turn.res # <<>> /\ turn.res[1].status = 400 => malformed(turn.req))
            /\ (turn.chatMessage # <<>> => turn.chatMessage[1].userId = principalOf(turn.req))
            /\ \A i \in recordsOf(t) : chatMessages[i].userId = principalOf(turn.req)

\* C22, reached: a turn with an expired token of an active user is answered
\* with success and persisted as anonymous
C22_ExpiredTokenRunsAnonymous ==
    \E t \in DOMAIN turns :
        /\ turns[t].req.token = ExpiredToken
        /\ succeeded(t)
        /\ \E i \in recordsOf(t) : chatMessages[i].userId = "anonymous"

\* ---------------- C23 ----------------

\* the token of the request is that of an active user of the given roles
ofActiveUserIn(token, roles) ==
    /\ token.kind = "valid"
    /\ token.id \in UserIds
    /\ users[token.id].isActive
    /\ users[token.id].role \in roles

\* C23: chat analytics are computed and returned only for an authenticated, active
\* admin; a request that is not authenticated ends with 401, that of a student or
\* a teacher with 403, and in neither case is an aggregate computed or returned
C23_AnalyticsOnlyForAdmin ==
    lastOp.kind = "analytics" =>
        LET token == lastOp.req.token
            untouched == lastOp.aggregates = 0 /\ lastOp.data = <<>> /\ ~lastOp.success
        IN  /\ (lastOp.aggregates > 0 \/ lastOp.data # <<>> \/ lastOp.status \in {200, 500}
                    => ofActiveUserIn(token, {"admin"}))
            /\ (~ofActiveUserIn(token, {"student", "teacher", "admin"})
                    => lastOp.status = 401 /\ untouched)
            /\ (ofActiveUserIn(token, {"student", "teacher"})
                    => lastOp.status = 403 /\ untouched)
            /\ (ofActiveUserIn(token, {"admin"}) => lastOp.status \in {200, 500})
            /\ (lastOp.status = 200 =>
                    /\ lastOp.aggregates = 3
                    /\ lastOp.data[1].messageStats.totalMessages <= Len(chatMessages))
            /\ lastOp.after = lastOp.before

\* a teacher was refused while two messages were stored
C23_TeacherRefusedWithMessagesStored ==
    /\ lastOp.kind = "analytics"
    /\ lastOp.req.token = TokenOf("u2")
    /\ lastOp.status = 403
    /\ lastOp.aggregates = 0
    /\ Len(chatMessages) = 2

\* ---------------- C24 ----------------

\* the sum of the counts f holds under the keys of S
RECURSIVE sumOver(_, _)
sumOver(f, S) ==
    IF S = {} THEN 0
    ELSE LET k == CHOOSE x \in S : TRUE
         IN  f[k].value + sumOver(f, S \ {k})

\* the store only grows: a step keeps every chunk as it is and where it is, and
\* an addDocument call puts exactly one chunk at the end and returns its id
storeOnlyGrows ==
    [][/\ Len(collegeDocuments') >= Len(collegeDocuments)
       /\ \A i \in DOMAIN collegeDocuments : collegeDocuments'[i] = collegeDocuments[i]
       /\ (call'.fn = "addDocument" /\ returned' # returned =>
               /\ Len(collegeDocuments') = Len(collegeDocuments) + 1
               /\ collegeDocuments'[Len(collegeDocuments')].id = returned'[1]
               /\ collegeDocuments'[Len(collegeDocuments')].content = call'.document.content
               /\ collegeDocuments'[Len(collegeDocuments')].metadata = call'.document.metadata)
       /\ (call'.fn # "addDocument" => collegeDocuments' = collegeDocuments)]_vars

\* C24: getDocumentStats reports totalDocuments equal to the number of chunks
\* stored, and its byCategory counts are numbers that sum to totalDocuments
C24_CategoryCountsSumToTotal ==
    call.fn = "getDocumentStats" /\ returned # <<>> =>
        LET stats == returned[1]
        IN  /\ stats.totalDocuments = Len(collegeDocuments)
            /\ \A k \in DOMAIN stats.byCategory : stats.byCategory[k].type = "number"
            /\ sumOver(stats.byCategory, DOMAIN stats.byCategory) = stats.totalDocuments

\* the same with the documents filed under a name of Object.prototype set aside
categoryCountsSumApartFromInheritedNames ==
    call.fn = "getDocumentStats" /\ returned # <<>> =>
        LET stats == returned[1]
            plain == {k \in DOMAIN stats.byCategory : k \notin ObjectPrototypeKeys}
            inherited == {i \in DOMAIN collegeDocuments :
                            collegeDocuments[i].metadata.category \in ObjectPrototypeKeys}
        IN  /\ stats.totalDocuments = Len(collegeDocuments)
            /\ \A k \in plain : stats.byCategory[k].type = "number"
            /\ sumOver(stats.byCategory, plain) = stats.totalDocuments - Cardinality(inherited)

\* getDocumentStats returned after a document of category "constructor" was added
C24_StatsAfterConstructorCategory ==
    /\ call.fn = "getDocumentStats"
    /\ returned # <<>>
    /\ \E i \in DOMAIN collegeDocuments : collegeDocuments[i].metadata.category = "constructor"
    /\ returned[1].byCategory["constructor"].type = "string"

\* ---------------- C25 ----------------

\* ! , . : ; ?
Punctuation == {33, 44, 46, 58, 59, 63}

\* s without the punctuation at its end
RECURSIVE withoutTrailingPunctuation(_)
withoutTrailingPunctuation(s) ==
    IF Len(s) > 0 /\ s[Len(s)] \in Punctuation
    THEN withoutTrailingPunctuation(SubSeq(s, 1, Len(s) - 1))
    ELSE s

\* the first token of the trimmed message, its trailing punctuation set aside and
\* in lower case, is one of the alternatives of the greeting pattern
firstTokenGreets(message) ==
    LET token == toLowerCase(withoutTrailingPunctuation(splitWhitespace(trim(message))[1]))
    IN  \E alt \in greetingAlternatives : token = toLowerCase(alt)

\* C25: a turn takes the greeting shortcut if and only if the first token of its
\* trimmed message is a greeting token; every other turn is persisted with
\* isFromRAG = true
C25_ShortcutIffFirstTokenGreets ==
    \A t \in DOMAIN turns :
        passedValidation(t) /\ turns[t].chatMessage # <<>> =>
            /\ turns[t].greeting <=> firstTokenGreets(turns[t].req.message)
            /\ turns[t].chatMessage[1].isFromRAG <=> ~firstTokenGreets(turns[t].req.message)

\* a message whose first token is a greeting token takes the shortcut
firstTokenGreetingTakesShortcut ==
    \A t \in DOMAIN turns :
        passedValidation(t) /\ firstTokenGreets(turns[t].req.message) =>
            /\ turns[t].greeting
            /\ turns[t].chatMessage # <<>>
            /\ ~turns[t].chatMessage[1].isFromRAG

\* "history of the college" was answered with the greeting and persisted with
\* isFromRAG = false
C25_HistoryQuestionGreeted ==
    \E t \in DOMAIN turns :
        /\ turns[t].req.message = m_history
        /\ succeeded(t)
        /\ turns[t].greeting
        /\ turns[t].res[1].response = greetingIn(resolvedLanguage(t))
        /\ \E i \in recordsOf(t) : ~chatMessages[i].isFromRAG

\* ---------------- C26 ----------------

\* the rank of a selected exchange, counted from the newest (1)
rankOf(doc) == newerThan(doc) + 1

\* C26: for the N exchanges a history request with a valid page and limit selects,
\* totalItems = N, totalPages = ceil(N / limit), hasNext = (page < totalPages),
\* hasPrev = (page > 1), the page holds at most limit exchanges, and it holds
\* exactly the exchanges of ranks (page - 1) limit + 1 .. page limit, every rank
\* 1..N being that of one exchange and lying on one of the pages 1..totalPages:
\* the pages together hold every exchange exactly once
C26_EnvelopeAndPagesPartition ==
    (lastOp.kind = "history" /\ lastOp.success) =>
        LET p == pageOf(lastOp.req)
            l == limitOf(lastOp.req)
            N == Cardinality(selected)
            env == lastOp.pagination
            onPage == {j \in selected :
                        /\ rankOf(lastOp.before[j]) > (p - 1) * l
                        /\ rankOf(lastOp.before[j]) <= p * l}
        IN  /\ p >= 1 /\ l \in 1..100
            /\ lastOp.after = lastOp.before
            /\ env.currentPage = p /\ env.itemsPerPage = l
            /\ env.totalItems = N
            /\ (env.totalPages - 1) * l < N \/ (N = 0 /\ env.totalPages = 0)
            /\ env.totalPages * l >= N
            /\ env.hasNext <=> p < env.totalPages
            /\ env.hasPrev <=> p > 1
            /\ Len(lastOp.data) <= l
            /\ Len(lastOp.data) = Cardinality(onPage)
            /\ \A j \in onPage : \E i \in DOMAIN lastOp.data : lastOp.data[i] = lastOp.before[j]
            /\ \A r \in 1..N :
                    /\ Cardinality({j \in selected : rankOf(lastOp.before[j]) = r}) = 1
                    /\ \E q \in 1..env.totalPages : r > (q - 1) * l /\ r <= q * l
            /\ (p > env.totalPages => lastOp.data = <<>>)

\* the second of two pages of one exchange each was read
C26_SecondOfTwoPages ==
    /\ lastOp.kind = "history" /\ lastOp.success
    /\ lastOp.req.page = <<2>> /\ lastOp.req.limit = <<1>>
    /\ Cardinality(selected) = 2
    /\ lastOp.pagination.totalPages = 2
    /\ lastOp.pagination.hasPrev /\ ~lastOp.pagination.hasNext
    /\ Len(lastOp.data) = 1

\* ---------------- C27 ----------------

\* C27: a result of detectLanguage lists at most two alternatives, each with a
\* confidence above 0.1 and not above that of the top-scoring candidate, and none
\* of them names the language of the result
C27_AlternativesApartFromResult ==
    call.fn = "detectLanguage" /\ returned # <<>> =>
        LET result == returned[1]
        IN  /\ Len(result.alternatives) <= 2
            /\ \A i \in DOMAIN result.alternatives :
                    /\ result.alternatives[i].confidence > 10
                    /\ result.alternatives[i].confidence <= topConfidence(call.text, call.franc)
                    /\ result.alternatives[i].language # result.language

\* the top-scoring candidate: the first of en, hi, raj with the highest score
topCandidate(text, franc) ==
    IF /\ rawScore(text, "en", franc) >= rawScore(text, "hi", franc)
       /\ rawScore(text, "en", franc) >= rawScore(text, "raj", franc)
    THEN "en"
    ELSE IF rawScore(text, "hi", franc) >= rawScore(text, "raj", franc) THEN "hi" ELSE "raj"

\* the same, with the top-scoring candidate in place of the language of the result
alternativesApartFromTopCandidate ==
    call.fn = "detectLanguage" /\ returned # <<>> =>
        LET result == returned[1]
        IN  /\ Len(result.alternatives) <= 2
            /\ \A i \in DOMAIN result.alternatives :
                    /\ result.alternatives[i].confidence > 10
                    /\ result.alternatives[i].confidence <= topConfidence(call.text, call.franc)
                    /\ result.alternatives[i].language # topCandidate(call.text, call.franc)
                    /\ \A k \in DOMAIN result.alternatives :
                            k # i => result.alternatives[k].language # result.alternatives[i].language

\* a text whose top candidate is below the floor was answered as English, with
\* English among the alternatives
C27_ForcedEnglishListsEnglish ==
    /\ call.fn = "detectLanguage" /\ returned # <<>>
    /\ returned[1].language = "en"
    /\ returned[1].confidence = 50
    /\ \E i \in DOMAIN returned[1].alternatives : returned[1].alternatives[i].language = "en"

\* ---------------- C28 ----------------

fetched == lastOp.kind = "get" /\ lastOp.req.id \in DOMAIN lastOp.before
fetchedUnpublished == fetched /\ ~lastOp.before[lastOp.req.id].isPublished

\* a 404 leaves the collection as it was, and a 200 adds one to the viewCount of
\* the announcement fetched and changes nothing else
viewsCountedOnSuccessOnly ==
    lastOp.kind = "get" =>
        /\ (lastOp.status # 200 => lastOp.after = lastOp.before)
        /\ (lastOp.status = 200 =>
                /\ fetched
                /\ lastOp.after =
                        [lastOp.before EXCEPT ![lastOp.req.id].viewCount = @ + 1]
                /\ lastOp.data = <<lastOp.after[lastOp.req.id]>>)
        /\ lastOp.after = announcements

\* C29: a fetch of an unpublished announcement is answered 200 to an admin and 404
\* to every other caller, as is a fetch of an unknown id; a 404 leaves viewCount
\* as it was and a 200 adds exactly one to it
C29_UnpublishedForAdminOnly ==
    /\ viewsCountedOnSuccessOnly
    /\ (fetchedUnpublished =>
            IF ofActiveUserIn(lastOp.req.token, {"admin"})
            THEN lastOp.status = 200
            ELSE lastOp.status = 404)
    /\ (lastOp.kind = "get" /\ isMongoId(lastOp.req.id) /\ ~fetched => lastOp.status = 404)

\* what the route does: an unpublished announcement is answered 404 to every
\* caller and a published one 200
unpublishedForNobody ==
    /\ viewsCountedOnSuccessOnly
    /\ (fetchedUnpublished => lastOp.status = 404)
    /\ (fetched /\ ~fetchedUnpublished => lastOp.status = 200)
    /\ (lastOp.kind = "get" /\ isMongoId(lastOp.req.id) /\ ~fetched => lastOp.status = 404)

\* an admin's fetch of an unpublished announcement was answered 404
C29_AdminRefusedUnpublished ==
    /\ fetchedUnpublished
    /\ lastOp.req.token = TokenOf("u3")
    /\ lastOp.before[lastOp.req.id].author = "u3"
    /\ lastOp.status = 404
    /\ announcements = lastOp.before

\* ---------------- C30 ----------------

\* C30: isLoading is true exactly while an accepted sendMessage call awaits its
\* response: it is not cleared while a call is in flight, and it is false once
\* every call has completed
C30_LoadingWhileACallIsInFlight ==
    chatProvider.isLoading <=> chatProvider.calls # <<>>

\* isLoading is false once every call has completed and true only while a call is
\* in flight, and with a single call it is true exactly while that call is in
\* flight
loadingExactWithoutOverlap ==
    /\ (chatProvider.calls = <<>> => ~chatProvider.isLoading)
    /\ (chatProvider.isLoading => chatProvider.calls # <<>>)
    /\ (chatProvider.sent = 1 => (chatProvider.isLoading <=> chatProvider.calls # <<>>))

\* of two overlapping calls one has completed, and isLoading is false while the
\* other awaits its response
C30_LoadingClearedWithCallInFlight ==
    /\ chatProvider.sent = 2
    /\ Len(chatProvider.calls) = 1
    /\ Len(chatProvider.messages) = 3
    /\ ~chatProvider.isLoading

=============================================================================
